---- MODULE Spec2Model ----
(***************************************************************************)
(* A model of tame-index: the cargo-compatible cache codec, the bare git   *)
(* index engine (RemoteGitIndex / GitIndex), the sparse HTTP engine        *)
(* (SparseIndex) and the advisory file lock (utils::flock).                *)
(*                                                                         *)
(* Strings and files are sequences of bytes (integers 0..255).  Results    *)
(* are records: Ok(v) / Err(e); options are records: Some(v) / None.       *)
(***************************************************************************)
EXTENDS Integers, Sequences, FiniteSets, TLC

VARIABLES
    remote,      \* git: the remote's commits, oldest first; each is its tree
    localHead,   \* git: the commit the local repository's HEAD resolves to (0: none)
    headKind,    \* git: the gix::head::Kind of the local HEAD ("Symbolic": a reference
                 \* to a branch that exists, "Unborn": to one that does not,
                 \* "Detached": a commit id) and, of a symbolic HEAD, the target of
                 \* the branch ("Peeled": a commit id, "Symbolic": a reference again)
    head,        \* git: GitIndex::head, the hex head commit id the engine holds
                 \* (where every process has an engine: of each process's engine)
    cache,       \* the .cache directory: relative path -> file
    writtenBy,   \* who wrote each cache file last ("none", "krate", "parse", "other")
    last,        \* the last operation and what it returned
    fsKind,      \* flock: the filesystem of the lock file ("rw", "ro", "nfs", "nfs_ro",
                 \* "nolock")
    osLock,      \* flock: the lock the kernel holds for each process's open file
    fileLock,    \* flock: the state of the FileLock each process owns ("none": it owns none)
    waiting,     \* flock: the state each process blocked in sys::lock waits for ("no": not
                 \* blocked) and the milliseconds it waits at most
    pc,          \* where each process is in the call it makes ("idle": in none,
                 \* "none": it has no engine yet) and the krate it is writing, or
                 \* the name a worker of a batch has sent the request of
    marker       \* the process that holds the git engine's lock file (0: none)

gitVars == <<remote, localHead, headKind, head, writtenBy>>

lockVars == <<fsKind, osLock, fileLock, waiting>>

procVars == <<pc, marker>>

vars == <<remote, localHead, headKind, head, cache, writtenBy, last, fsKind, osLock, fileLock, waiting,
          pc, marker>>

----------------------------------------------------------------------------
(* Bounds of the model *)

\* the number of commits the remote ever holds
MaxCommits == 2

\* the number of processes that lock the same path, and of the workers that
\* serve a batch
NumProcs == 3

\* the number of processes that open an engine on the same index directory
NumEngines == 2

----------------------------------------------------------------------------
(* Values *)

None == [some |-> FALSE]
Some(v) == [some |-> TRUE, val |-> v]
Ok(v) == [ok |-> TRUE, val |-> v]
Err(e) == [ok |-> FALSE, err |-> e]

\* the byte that ends every field of a cache entry
NUL == 0
\* the byte that ends every line of an index file
NL == 10
\* std::path::MAIN_SEPARATOR on unix, '/'
SEP == 47

CURRENT_CACHE_VERSION == 3
INDEX_V_MAX == 2
INDEX_V_MAX_BYTES == <<INDEX_V_MAX % 256, (INDEX_V_MAX \div 256) % 256,
                       (INDEX_V_MAX \div 65536) % 256, (INDEX_V_MAX \div 16777216) % 256>>

RECURSIVE Concat(_)
Concat(ss) == IF ss = <<>> THEN <<>> ELSE Head(ss) \o Concat(Tail(ss))

RECURSIVE Sum(_)
Sum(s) == IF s = <<>> THEN 0 ELSE Head(s) + Sum(Tail(s))

\* the crate names of the model: "a" and "b"
CrateNames == {<<97>>, <<98>>}

\* KrateName::prefix
prefix(name, sep) ==
    CASE Len(name) = 1 -> <<49>>
      [] Len(name) = 2 -> <<50>>
      [] Len(name) = 3 -> <<51, sep, name[1]>>
      [] OTHER -> <<name[1], name[2], sep, name[3], name[4]>>

\* KrateName::relative_path
relative_path(name, sep) == prefix(name, sep) \o <<sep>> \o name

Paths == {relative_path(n, SEP) : n \in CrateNames}

----------------------------------------------------------------------------
(* utils::encode_hex *)

CHARS == <<48, 49, 50, 51, 52, 53, 54, 55, 56, 57, 97, 98, 99, 100, 101, 102>>

encode_hex(input) ==
    Concat([i \in 1..Len(input) |->
              <<CHARS[(input[i] \div 16) + 1], CHARS[(input[i] % 16) + 1]>>])

----------------------------------------------------------------------------
(* utils/flock.rs: LockOptions, FileLock, and the sys module's calls *)

Procs == 1..NumProcs

\* a kernel that grants every request, against which C4 is checked
C4_Granting_Compatible(p, state) == TRUE

\* what the kernel guarantees of LockFileEx / flock: a request is granted
\* when no other open file holds a lock, or when it is shared and every lock
\* held is shared
Compatible(p, state) ==
    \A q \in Procs \ {p} :
        osLock[q] = "none" \/ (state = "Shared" /\ osLock[q] = "Shared")

\* sys::try_lock: LockFileEx with LOCKFILE_FAIL_IMMEDIATELY, and the flag
\* LOCKFILE_EXCLUSIVE_LOCK for LockState::Exclusive
sys_try_lock(p, state) ==
    IF fsKind = "nolock" THEN Err("ErrorInvalidFunction")
    ELSE IF Compatible(p, state) THEN Ok(state)
    ELSE Err("ErrorLockViolation")

\* sys::is_contended, sys::is_unsupported, sys::is_timed_out
is_contended(err) == err = "ErrorLockViolation"
is_unsupported(err) == err = "ErrorInvalidFunction"
is_timed_out(err) == err \in {"WaitTimeout", "WaitIoCompletion"}

\* LockOptions::open with the options of sys::open_opts(exclusive): opening
\* for writing fails on a read-only filesystem
open(write) ==
    IF write /\ fsKind \in {"ro", "nfs_ro"} THEN Err("Readonly") ELSE Ok("file")

\* Duration::as_millis of a Duration (whole seconds and the nanoseconds
\* beyond them), as whole seconds and the milliseconds beyond them (a
\* number of milliseconds such as INFINITE is beyond the integers of TLC)
as_millis(dur) == [secs |-> dur.secs, millis |-> dur.nanos \div 1000000]

\* INFINITE of the Win32 API, 4294967295 milliseconds (which is u32::MAX):
\* the wait that never times out
Infinite == [secs |-> 4294967, millis |-> 295]

\* a flock that takes no timeout for a wait without limit, against which C21
\* is checked
C21_Forever_flock_timeout(timeout) ==
    IF ~timeout.some THEN Infinite ELSE as_millis(timeout.val)

\* a flock that passes the milliseconds on without the clamp to u32::MAX,
\* against which C22 is checked
C22_Unclamped_flock_timeout(timeout) ==
    IF ~timeout.some THEN [secs |-> 0, millis |-> 0]
    ELSE [secs |-> 0, millis |-> as_millis(timeout.val).millis]

\* dwMilliseconds as flock computes it from the timeout it is handed
flock_timeout(timeout) ==
    LET millis == as_millis(timeout.val)
    IN  IF ~timeout.some THEN [secs |-> 0, millis |-> 0]
        ELSE IF millis.secs > Infinite.secs
                  \/ (millis.secs = Infinite.secs /\ millis.millis >= Infinite.millis)
             THEN Infinite
        ELSE millis

\* sys::lock up to the wait: LockFileEx without LOCKFILE_FAIL_IMMEDIATELY
\* takes the lock at once or leaves the request pending; on a pending request
\* GetOverlappedResultEx waits dwMilliseconds, and with a wait of zero it
\* fails at once with ERROR_IO_INCOMPLETE
sys_lock(p, state, timeout) ==
    IF fsKind = "nolock" THEN Err("ErrorInvalidFunction")
    ELSE IF Compatible(p, state) THEN Ok(state)
    ELSE IF flock_timeout(timeout) = [secs |-> 0, millis |-> 0]
         THEN Err("ErrorIoIncomplete")
    ELSE [ok |-> FALSE, err |-> "ErrorIoPending", state |-> state,
          millis |-> flock_timeout(timeout)]

\* a do_lock that enters the blocking call whether or not a wait hook is
\* given, against which C5 is checked
C5_Blocking_do_lock(p, state, wait) ==
    IF sys_try_lock(p, state).ok
    THEN [res |-> Ok(state), calls |-> <<"try_lock">>]
    ELSE [res |-> [ok |-> FALSE, err |-> "Blocks", state |-> state,
                   millis |-> [secs |-> 0, millis |-> 1]],
          calls |-> <<"try_lock", "lock">>]

\* a do_lock that looks at the filesystem only after sys::try_lock, against
\* which C23 is checked
C23_TryFirst_do_lock(p, state, wait) ==
    IF sys_try_lock(p, state).ok THEN [res |-> Ok(state), calls |-> <<"try_lock">>]
    ELSE [res |-> Err("Nfs"), calls |-> <<"try_lock">>]

\* LockOptions::do_lock up to the wait inside sys::lock.  res is Ok, an error,
\* or Blocks (the request is pending and the process waits); calls lists the
\* calls of the sys module and of the wait hook that were made.
do_lock(p, state, wait) ==
    IF fsKind \in {"nfs", "nfs_ro"} THEN [res |-> Err("Nfs"), calls |-> <<>>]
    ELSE LET tried == sys_try_lock(p, state)
             locked == sys_lock(p, state, wait.val)
         IN  IF tried.ok THEN [res |-> Ok(state), calls |-> <<"try_lock">>]
             ELSE IF is_unsupported(tried.err)
                  THEN [res |-> Err("NotSupported"), calls |-> <<"try_lock">>]
             ELSE IF ~is_contended(tried.err)
                  THEN [res |-> Err("Lock"), calls |-> <<"try_lock">>]
             ELSE IF ~wait.some
                  THEN [res |-> Err("Contested"), calls |-> <<"try_lock">>]
             ELSE [res |-> IF locked.ok THEN Ok(state)
                           ELSE IF locked.err = "ErrorIoPending"
                                THEN [ok |-> FALSE, err |-> "Blocks", state |-> state,
                                      millis |-> locked.millis]
                           ELSE IF is_timed_out(locked.err) THEN Err("TimedOut")
                           ELSE Err("Lock"),
                   calls |-> <<"try_lock", "wait", "lock">>]

\* an open_and_lock whose fallback opens the file for reading but still asks
\* for the exclusive lock, against which C24 is checked
C24_NoDowngrade_open_and_lock(p, exclusive, shared_fallback, wait) ==
    IF exclusive /\ ~open(TRUE).ok /\ ~shared_fallback
    THEN [res |-> open(TRUE), calls |-> <<>>]
    ELSE do_lock(p, IF exclusive THEN "Exclusive" ELSE "Shared", wait)

\* LockOptions::open_and_lock up to the wait inside sys::lock
open_and_lock(p, exclusive, shared_fallback, wait) ==
    IF exclusive
    THEN IF open(TRUE).ok THEN do_lock(p, "Exclusive", wait)
         ELSE IF shared_fallback /\ open(TRUE).err = "Readonly"
              THEN IF open(FALSE).ok THEN do_lock(p, "Shared", wait)
                   ELSE [res |-> open(FALSE), calls |-> <<>>]
              ELSE [res |-> open(TRUE), calls |-> <<>>]
    ELSE IF open(FALSE).ok THEN do_lock(p, "Shared", wait)
         ELSE [res |-> open(FALSE), calls |-> <<>>]

\* a process calls LockOptions::try_lock or LockOptions::lock; it owns no
\* FileLock and is not blocked.  `wait` is None for try_lock and Some(the
\* hook's answer) for lock.
LockCall(op, p, exclusive, shared_fallback, wait) ==
    LET out == open_and_lock(p, exclusive, shared_fallback, wait)
        res == out.res
    IN  /\ fileLock[p] = "none"
        /\ waiting[p].state = "no"
        /\ osLock' = IF res.ok THEN [osLock EXCEPT ![p] = res.val] ELSE osLock
        /\ fileLock' = IF res.ok THEN [fileLock EXCEPT ![p] = res.val] ELSE fileLock
        /\ waiting' = IF ~res.ok /\ res.err = "Blocks"
                      THEN [waiting EXCEPT ![p] = [state |-> res.state,
                                                   millis |-> res.millis]]
                      ELSE waiting
        /\ last' = [op |-> op, name |-> <<>>, res |-> res, proc |-> p,
                    exclusive |-> exclusive, shared_fallback |-> shared_fallback,
                    wait |-> wait, calls |-> out.calls]
        /\ UNCHANGED <<fsKind, cache, gitVars, procVars>>

\* LockOptions::try_lock
TryLock(p, exclusive, shared_fallback) ==
    LockCall("try_lock", p, exclusive, shared_fallback, None)

\* LockOptions::lock; `timeout` is what the wait hook answers
Lock(p, exclusive, shared_fallback, timeout) ==
    LockCall("lock", p, exclusive, shared_fallback, Some(timeout))

\* sys::lock returns Ok: the kernel grants the lock a process blocks for
LockGranted(p) ==
    /\ waiting[p].state # "no"
    /\ Compatible(p, waiting[p].state)
    /\ osLock' = [osLock EXCEPT ![p] = waiting[p].state]
    /\ fileLock' = [fileLock EXCEPT ![p] = waiting[p].state]
    /\ waiting' = [waiting EXCEPT ![p] = [state |-> "no", millis |-> [secs |-> 0, millis |-> 0]]]
    /\ last' = [op |-> "lock", name |-> <<>>, res |-> Ok(waiting[p].state), proc |-> p,
                exclusive |-> waiting[p].state = "Exclusive", waited |-> waiting[p]]
    /\ UNCHANGED <<fsKind, cache, gitVars, procVars>>

\* the wait of GetOverlappedResultEx ends with WAIT_TIMEOUT, which a wait of
\* INFINITE never does: sys::lock returns an error that is_timed_out and
\* do_lock maps it to TimedOut
LockTimedOut(p) ==
    /\ waiting[p].state # "no"
    /\ waiting[p].millis # Infinite
    /\ waiting' = [waiting EXCEPT ![p] = [state |-> "no", millis |-> [secs |-> 0, millis |-> 0]]]
    /\ last' = [op |-> "lock", name |-> <<>>,
                res |-> IF is_timed_out("WaitTimeout") THEN Err("TimedOut") ELSE Err("Lock"),
                proc |-> p,
                exclusive |-> waiting[p].state = "Exclusive", waited |-> waiting[p]]
    /\ UNCHANGED <<fsKind, osLock, fileLock, cache, gitVars, procVars>>

\* FileLock::unlocked
Unlocked(p) ==
    /\ fileLock[p] = "none"
    /\ waiting[p].state = "no"
    /\ fileLock' = [fileLock EXCEPT ![p] = "Unlocked"]
    /\ last' = [op |-> "unlocked", name |-> <<>>, res |-> Ok("Unlocked"), proc |-> p,
                exclusive |-> FALSE]
    /\ UNCHANGED <<fsKind, osLock, waiting, cache, gitVars, procVars>>

\* a drop that forgets the FileLock without unlocking the file, against which
\* C25 is checked
C25_Leaky_Drop(p) ==
    /\ fileLock[p] # "none"
    /\ fileLock' = [fileLock EXCEPT ![p] = "none"]
    /\ last' = [op |-> "drop", name |-> <<>>, res |-> Ok(None), proc |-> p,
                exclusive |-> FALSE, state |-> fileLock[p]]
    /\ UNCHANGED <<fsKind, osLock, waiting, cache, gitVars, procVars>>

\* Drop for FileLock: sys::unlock unless the state is Unlocked
Drop(p) ==
    /\ fileLock[p] # "none"
    /\ osLock' = IF fileLock[p] # "Unlocked" THEN [osLock EXCEPT ![p] = "none"] ELSE osLock
    /\ fileLock' = [fileLock EXCEPT ![p] = "none"]
    /\ last' = [op |-> "drop", name |-> <<>>, res |-> Ok(None), proc |-> p,
                exclusive |-> FALSE, state |-> fileLock[p]]
    /\ UNCHANGED <<fsKind, waiting, cache, gitVars, procVars>>

\* no process has ever locked the path
LockIdle ==
    /\ fsKind = "rw"
    /\ osLock = [p \in Procs |-> "none"]
    /\ fileLock = [p \in Procs |-> "none"]
    /\ waiting = [p \in Procs |-> [state |-> "no", millis |-> [secs |-> 0, millis |-> 0]]]
    /\ pc = [p \in Procs |-> [at |-> "idle", krate |-> <<>>]]
    /\ marker = 0

----------------------------------------------------------------------------
(* IndexVersion, IndexKrate and their JSON lines *)

\* the position of the first `needle` in `haystack`, 0 when there is none
memchr(needle, haystack) ==
    IF \E i \in 1..Len(haystack) : haystack[i] = needle
    THEN CHOOSE i \in 1..Len(haystack) :
            /\ haystack[i] = needle
            /\ \A j \in 1..(i - 1) : haystack[j] # needle
    ELSE 0

\* an IndexVersion: the crate's name, the version number n of "n.0.0" and
\* the keys of its features map in the order the HashMap iterates them
IndexVersion(name, n) == [name |-> name, vers |-> n, features |-> <<>>]

\* semver::Version::to_string, one digit
semver_to_string(n) == <<48 + n>>

\* serde_json::to_writer of an IndexVersion: {name:n} followed by the keys of
\* the features map, each after a comma, in the map's iteration order
to_json(iv) ==
    <<123>> \o iv.name \o <<58, 48 + iv.vers>>
      \o Concat([i \in 1..Len(iv.features) |-> <<44, iv.features[i]>>]) \o <<125>>

\* serde_json::from_slice of an IndexVersion; a key that comes twice is one
\* key of the map
from_json(bytes) ==
    LET n == Len(bytes)
        colon == memchr(58, bytes)
        keys == SubSeq(bytes, colon + 2, n - 1)
        firsts == {i \in 1..(Len(keys) \div 2) :
                     \A j \in 1..(i - 1) : keys[2 * j] # keys[2 * i]}
    IN  IF /\ n >= 5
           /\ bytes[1] = 123
           /\ bytes[n] = 125
           /\ colon >= 3
           /\ colon + 1 < n
           /\ bytes[colon + 1] \in 49..57
           /\ \A i \in 2..(colon - 1) : bytes[i] \in 97..122
           /\ Len(keys) % 2 = 0
           /\ \A i \in 1..(Len(keys) \div 2) :
                 keys[2 * i - 1] = 44 /\ keys[2 * i] \in 97..122
        THEN Ok([name |-> SubSeq(bytes, 2, colon - 1),
                 vers |-> bytes[colon + 1] - 48,
                 features |->
                     [k \in 1..Cardinality(firsts) |->
                        keys[2 * (CHOOSE i \in firsts :
                                     Cardinality({j \in firsts : j <= i}) = k)]]])
        ELSE Err("Json")

\* the krate of `name` with the versions 1..n
Krate(name, n) == [i \in 1..n |-> IndexVersion(name, i)]

\* the contents a crate's index file takes: one version, then two
KratesOf(name) == {Krate(name, 1), Krate(name, 2)}

\* IndexKrate::name
krate_name(krate) == krate[1].name

\* IndexKrate::write_json_lines
write_json_lines(krate) ==
    Concat([i \in 1..Len(krate) |-> to_json(krate[i]) \o <<NL>>])

----------------------------------------------------------------------------
(* cache.rs *)

\* cache::split, all the items the iterator yields
RECURSIVE split(_, _)
split(haystack, needle) ==
    IF haystack = <<>> THEN <<>>
    ELSE LET pos == memchr(needle, haystack)
         IN  IF pos = 0 THEN <<haystack>>
             ELSE <<SubSeq(haystack, 1, pos - 1)>>
                    \o split(SubSeq(haystack, pos + 1, Len(haystack)), needle)

\* std::str::from_utf8 succeeds; the model's only bytes above ASCII are
\* bytes that no UTF-8 string holds
is_utf8(bytes) == \A i \in 1..Len(bytes) : bytes[i] < 128

\* u32::from_be_bytes, against which C13 is checked
C13_u32_from_be_bytes(b) == b[4] + 256 * b[3] + 65536 * b[2] + 16777216 * b[1]

u32_from_le_bytes(b) == b[1] + 256 * b[2] + 65536 * b[3] + 16777216 * b[4]

\* a read that looks at the index version first and knows no cache version,
\* against which C12 is checked
C12_IndexFirst_read(buffer) ==
    IF Len(buffer) >= 5 /\ INDEX_V_MAX > u32_from_le_bytes(SubSeq(buffer, 2, 5))
    THEN Err("UnknownIndexVersion")
    ELSE Err("InvalidCacheEntry")

\* a read that does not ask for the first version and its blob before it
\* slices the buffer, against which C14 is checked
C14_Unchecked_read(buffer) ==
    IF Len(buffer) < 5 THEN Err("InvalidCacheEntry")
    ELSE LET rest == SubSeq(buffer, 6, Len(buffer))
             iter == split(rest, NUL)
         IN  IF Len(iter) < 1 THEN Err("InvalidCacheEntry")
             ELSE IF Len(iter[1]) + 1 > Len(rest) THEN Err("panic")
             ELSE Ok([revision |-> iter[1],
                      version_entries |->
                          SubSeq(rest, Len(iter[1]) + 2, Len(rest))])

\* ValidCacheEntry::read; the slice buffer[revision.len() + 1..] panics when
\* it starts past the end of the buffer
ValidCacheEntry_read(buffer) ==
    IF buffer = <<>> THEN Err("InvalidCacheEntry")
    ELSE IF buffer[1] < CURRENT_CACHE_VERSION THEN Err("OutdatedCacheVersion")
    ELSE IF buffer[1] > CURRENT_CACHE_VERSION THEN Err("UnknownCacheVersion")
    ELSE IF Len(buffer) < 5 THEN Err("InvalidCacheEntry")
    ELSE IF INDEX_V_MAX > u32_from_le_bytes(SubSeq(buffer, 2, 5))
         THEN Err("UnknownIndexVersion")
    ELSE LET rest == SubSeq(buffer, 6, Len(buffer))
             iter == split(rest, NUL)
         IN  IF Len(iter) < 1 THEN Err("InvalidCacheEntry")
             ELSE IF ~is_utf8(iter[1]) THEN Err("OutdatedRevision")
             ELSE IF Len(iter) < 3 THEN Err("InvalidCacheEntry")
             ELSE IF Len(iter[1]) + 1 > Len(rest) THEN Err("panic")
             ELSE Ok([revision |-> iter[1],
                      version_entries |->
                          SubSeq(rest, Len(iter[1]) + 2, Len(rest))])

\* IndexKrate::from_cache: the items come in pairs (semver, version JSON)
RECURSIVE from_cache(_)
from_cache(iter) ==
    IF iter = <<>> THEN Ok(<<>>)
    ELSE IF Len(iter) < 2 THEN Err("InvalidCrateVersion")
    ELSE LET version == from_json(iter[2])
             more == from_cache(SubSeq(iter, 3, Len(iter)))
         IN  IF ~version.ok THEN version
             ELSE IF ~more.ok THEN more
             ELSE Ok(<<version.val>> \o more.val)

\* ValidCacheEntry::to_krate
to_krate(valid, revision) ==
    IF revision.some /\ revision.val # valid.revision THEN Ok(None)
    ELSE LET krate == from_cache(split(valid.version_entries, NUL))
         IN  IF krate.ok THEN Ok(Some(krate.val)) ELSE krate

\* IndexKrate::write_cache_entry, the bytes written when no write fails
write_cache_entry(krate, revision) ==
    <<CURRENT_CACHE_VERSION>> \o INDEX_V_MAX_BYTES \o revision \o <<NUL>>
      \o Concat([i \in 1..Len(krate) |->
                   semver_to_string(krate[i].vers) \o <<NUL>>
                     \o to_json(krate[i]) \o <<NUL>>])

\* IndexKrate::from_slice_with_context: trailing newlines are trimmed, every
\* line is one version
RECURSIVE trim_newlines(_)
trim_newlines(bytes) ==
    IF bytes # <<>> /\ bytes[Len(bytes)] = NL
    THEN trim_newlines(SubSeq(bytes, 1, Len(bytes) - 1))
    ELSE bytes

RECURSIVE parse_lines(_)
parse_lines(lines) ==
    IF lines = <<>> THEN Ok(<<>>)
    ELSE LET version == from_json(Head(lines))
             more == parse_lines(Tail(lines))
         IN  IF ~version.ok THEN version
             ELSE IF ~more.ok THEN more
             ELSE Ok(<<version.val>> \o more.val)

from_slice(bytes) ==
    LET versions == parse_lines(split(trim_newlines(bytes), NL))
    IN  IF ~versions.ok THEN versions
        ELSE IF versions.val = <<>> THEN Err("NoCrateVersions")
        ELSE versions

----------------------------------------------------------------------------
(* index/local.rs: IndexCache over a directory of files *)

NoFile == [exists |-> FALSE, readable |-> TRUE, bytes |-> <<>>]
File(bytes) == [exists |-> TRUE, readable |-> TRUE, bytes |-> bytes]
\* a path std::fs::read fails on with an error other than NotFound
Unreadable == [exists |-> TRUE, readable |-> FALSE, bytes |-> <<>>]

\* IndexCache::read_cache_file
read_cache_file(dir, name) ==
    LET f == dir[relative_path(name, SEP)]
    IN  IF ~f.exists THEN Ok(None)
        ELSE IF ~f.readable THEN Err("IoPath")
        ELSE Ok(Some(f.bytes))

\* a cache that never finds an entry, against which C6 is checked
C6_Missing_cached_krate(dir, name, revision) == Ok(None)

\* IndexCache::cached_krate
IndexCache_cached_krate(dir, name, revision) ==
    LET contents == read_cache_file(dir, name)
    IN  IF ~contents.ok THEN contents
        ELSE IF ~contents.val.some THEN Ok(None)
        ELSE LET valid == ValidCacheEntry_read(contents.val.val)
             IN  IF ~valid.ok THEN valid ELSE to_krate(valid.val, revision)

\* a write_to_cache that writes nothing, against which C8 is checked
C8_Skipped_write_to_cache(dir, krate, revision, io) == dir

\* a write_to_cache that leaves the file it created when the write fails,
\* against which C38 is checked
C38_Leaky_write_to_cache(dir, krate, revision, io) ==
    LET cache_path == relative_path(krate_name(krate), SEP)
    IN  CASE io = "ok" ->
               [dir EXCEPT ![cache_path] = File(write_cache_entry(krate, revision))]
          [] io = "create_fails" -> dir
          [] OTHER -> [dir EXCEPT ![cache_path] = File(<<>>)]

\* IndexCache::write_to_cache, the directory afterwards: the file is created
\* (truncated) at the path of the krate's own name, then written; when the
\* write fails the file is removed again
IndexCache_write_to_cache(dir, krate, revision, io) ==
    LET cache_path == relative_path(krate_name(krate), SEP)
    IN  CASE io = "ok" ->
               [dir EXCEPT ![cache_path] = File(write_cache_entry(krate, revision))]
          [] io = "create_fails" -> dir
          [] OTHER -> [dir EXCEPT ![cache_path] = NoFile]

IoOutcomes == {"ok", "create_fails", "write_fails"}

----------------------------------------------------------------------------
(* The git objects of the remote and of the local bare clone *)

NoEntry == [kind |-> "none", data |-> <<>>]
Blob(data) == [kind |-> "blob", data |-> data]
\* an entry that is no blob (a subtree at the crate's path)
Subtree == [kind |-> "tree", data |-> <<>>]

EmptyTree == [p \in Paths |-> NoEntry]

\* the object id of the n-th commit of the remote (one byte stands for the
\* twenty of a sha-1; every commit has its own)
CommitOid(n) == <<n>>

\* the object id of a blob is a function of its data alone
BlobOid(data) == <<(Sum(data) % 128) + 128>>

\* what a commit may put at the path of `name`
EntriesOf(name) == {Blob(write_json_lines(k)) : k \in KratesOf(name)} \cup {Subtree}

\* the commit that the test non_main_local_branch makes in the local
\* repository before its first fetch: of an empty tree, without parents, a
\* commit the remote never holds
LocalCommit == MaxCommits + 2

\* the tree of commit n
commit_tree(n) == IF n = LocalCommit THEN EmptyTree ELSE remote[n]

\* gix::Repository::head_commit on the local repository
repo_head_commit == IF localHead = 0 THEN Err("Head") ELSE Ok(CommitOid(localHead))

\* gix::Repository::head().kind and, of Kind::Symbolic(sref), sref.target
HeadKind(kind, target) == [kind |-> kind, target |-> target]

----------------------------------------------------------------------------
(* index/git.rs: GitIndex *)

\* GitIndex::set_head_commit, the new value of GitIndex::head
set_head_commit(commit_id) ==
    IF commit_id.some THEN Some(encode_hex(commit_id.val)) ELSE None

\* GitIndex::head_commit
head_commit == head

\* a local view that takes an entry of any revision, against which C17 is
\* checked
C17_Unfiltered_cached_krate(name) == IndexCache_cached_krate(cache, name, None)

\* a local view that takes no entry while no head commit is set, against
\* which C39 is checked
C39_Strict_cached_krate(name) ==
    IF ~head_commit.some THEN Ok(None)
    ELSE IndexCache_cached_krate(cache, name, head_commit)

\* GitIndex::cached_krate
GitIndex_cached_krate(name) == IndexCache_cached_krate(cache, name, head_commit)

\* a write_to_cache that writes the entry under the revision it is handed,
\* against which C16 is checked
C16_Revision_write_to_cache(krate, blob_id, io) ==
    IndexCache_write_to_cache(cache, krate, blob_id.val, io)

\* GitIndex::write_to_cache, the cache directory afterwards.  The method of
\* git.rs takes the krate alone: whatever revision its caller hands over
\* (blob_id), the entry is written under head_commit(), and nothing is
\* written when no head commit is set.
GitIndex_write_to_cache(krate, blob_id, io) ==
    IF ~head_commit.some THEN cache
    ELSE IndexCache_write_to_cache(cache, krate, head_commit.val, io)

----------------------------------------------------------------------------
(* index/git_remote.rs: RemoteGitIndex *)

\* the closure open_or_clone_repo of RemoteGitIndex::with_options: the
\* repository discover_opts found is kept unless it has a remote origin of
\* another url; failing that the repository gix::open_opts opens at the path
\* itself is taken; failing that the index is cloned
open_or_clone_repo(found, origin, outcome) ==
    LET discovered == found # "none" /\ origin # "other"
        opened == found = "at_path"
    IN  IF discovered \/ opened THEN Ok("opened")
        ELSE IF outcome = "ok" THEN Ok("cloned")
        ELSE Err("Clone")

\* RemoteGitIndex::set_head, the new value of GitIndex::head
set_head ==
    set_head_commit(IF repo_head_commit.ok THEN Some(repo_head_commit.val) ELSE None)

\* RemoteGitIndex::read_blob
read_blob(path) ==
    IF ~repo_head_commit.ok THEN Err("Git")
    ELSE LET entry == commit_tree(localHead)[path]
         IN  IF entry.kind = "none" THEN Ok(None)
             ELSE IF entry.kind # "blob" THEN Ok(None)
             ELSE Ok(Some([id |-> BlobOid(entry.data), data |-> entry.data]))

\* a cached_krate that knows the head commit's revision only (the local view's
\* lookup), against which C2's blob-id case is checked
C2_HeadOnly_cached_krate(name) == IndexCache_cached_krate(cache, name, head_commit)

\* RemoteGitIndex::cached_krate
RemoteGitIndex_cached_krate(name) ==
    LET cached == read_cache_file(cache, name)
    IN  IF ~cached.ok THEN cached
        ELSE IF ~cached.val.some THEN Ok(None)
        ELSE LET valid == ValidCacheEntry_read(cached.val.val)
                 blob == read_blob(relative_path(name, SEP))
             IN  IF ~valid.ok THEN valid
                 ELSE IF Some(valid.val.revision) # head_commit
                      THEN IF ~blob.ok THEN blob
                           ELSE IF ~blob.val.some THEN Ok(None)
                           ELSE IF valid.val.revision # encode_hex(blob.val.val.id)
                                THEN Ok(None)
                           ELSE to_krate(valid.val, None)
                 ELSE to_krate(valid.val, None)

\* a krate that returns the error of a failed cache write, against which C26
\* is checked
C26_Strict_krate(name, write_cache_entry_, io) ==
    LET blob == read_blob(relative_path(name, SEP))
        krate == from_slice(blob.val.val.data)
    IN  [ret |-> IF write_cache_entry_ /\ io # "ok" THEN Err("IoPath")
                 ELSE IF ~blob.ok THEN blob
                 ELSE IF ~blob.val.some THEN Ok(None)
                 ELSE IF ~krate.ok THEN krate
                 ELSE Ok(Some(krate.val)),
         cache |-> cache, wrote |-> FALSE]

\* RemoteGitIndex::krate: what it returns (ret), the cache directory
\* afterwards (cache) and whether it wrote or removed a cache file (wrote)
RemoteGitIndex_krate(name, write_cache_entry_, io) ==
    LET cached == RemoteGitIndex_cached_krate(name)
        blob == read_blob(relative_path(name, SEP))
        krate == from_slice(blob.val.val.data)
        blob_id == encode_hex(blob.val.val.id)
        same(ret) == [ret |-> ret, cache |-> cache, wrote |-> FALSE]
    IN  IF cached.ok /\ cached.val.some THEN same(cached)
        ELSE IF ~blob.ok THEN same(blob)
        ELSE IF ~blob.val.some THEN same(Ok(None))
        ELSE IF ~krate.ok THEN same(krate)
        ELSE IF ~write_cache_entry_ THEN same(Ok(Some(krate.val)))
        ELSE [ret |-> Ok(Some(krate.val)),
              cache |-> GitIndex_write_to_cache(krate.val, Some(blob_id), io),
              wrote |-> head_commit.some /\ io # "create_fails"]

\* a reference edit that sets HEAD without dereferencing it, against which
\* C33 is checked
C33_NoDeref_head_edit == [name |-> "HEAD", expected |-> "Any", deref |-> FALSE]

\* the reference edit of fetch_with_options, whose new value is the id of the
\* remote's HEAD: when HEAD refers to a branch that is a symbolic reference
\* itself, the reference that branch names, which must exist; HEAD in every
\* other case, whatever it held.  Both edits dereference.
head_edit ==
    IF headKind.kind = "Symbolic" /\ headKind.target = "Symbolic"
    THEN [name |-> "target", expected |-> "MustExist", deref |-> TRUE]
    ELSE [name |-> "HEAD", expected |-> "Any", deref |-> TRUE]

\* gix::Repository::edit_reference of that edit, the kind of HEAD afterwards:
\* an edit of a symbolic HEAD that dereferences sets the branch HEAD refers
\* to, which it creates when HEAD is unborn; an edit of a detached HEAD, or
\* one that does not dereference, writes the id to HEAD itself
edit_reference(edit) ==
    IF edit.name = "HEAD" /\ (headKind.kind = "Detached" \/ ~edit.deref)
    THEN HeadKind("Detached", "None")
    ELSE IF headKind.kind = "Unborn" THEN HeadKind("Symbolic", "Peeled")
    ELSE headKind

----------------------------------------------------------------------------
(* Actions of the git engine *)

\* FakeRemote::commit / a push to the registry: the remote gains a commit
\* whose tree differs from its parent's at the path of one crate
Commit(name, entry) ==
    /\ Len(remote) < MaxCommits
    /\ remote[Len(remote)][relative_path(name, SEP)] # entry
    /\ remote' = Append(remote,
                   [remote[Len(remote)] EXCEPT ![relative_path(name, SEP)] = entry])
    /\ last' = [op |-> "commit", name |-> <<>>, res |-> Ok(None)]
    /\ UNCHANGED <<localHead, headKind, head, cache, writtenBy, lockVars, procVars>>

\* RemoteGitIndex::krate(name, write_cache_entry)
KrateCall(name, write_cache_entry_, io) ==
    LET out == RemoteGitIndex_krate(name, write_cache_entry_, io)
    IN  /\ cache' = out.cache
        /\ writtenBy' =
             IF out.wrote
             THEN [writtenBy EXCEPT ![relative_path(name, SEP)] =
                      IF io = "ok" THEN "krate" ELSE "none"]
             ELSE writtenBy
        /\ last' = [op |-> "krate", name |-> name, res |-> out.ret,
                    wrote |-> out.wrote /\ io = "ok", write |-> write_cache_entry_,
                    io |-> io]
        /\ UNCHANGED <<remote, localHead, headKind, head, lockVars, procVars>>

\* RemoteGitIndex::cached_krate(name)
CachedKrateCall(name) ==
    /\ last' = [op |-> "cached_krate", name |-> name,
                res |-> RemoteGitIndex_cached_krate(name)]
    /\ UNCHANGED <<remote, localHead, headKind, head, cache, writtenBy, lockVars, procVars>>

\* GitIndex::cached_krate(name), the view rgi.local() gives
LocalCachedKrate(name) ==
    /\ last' = [op |-> "local_cached_krate", name |-> name,
                res |-> GitIndex_cached_krate(name)]
    /\ UNCHANGED <<remote, localHead, headKind, head, cache, writtenBy, lockVars, procVars>>

\* RemoteGitIndex::with_options, a new engine on the directory.  `found` is
\* what discover_opts finds from the local path: nothing, a repository at the
\* path itself or one in a directory above it (whose HEAD is commit `above`);
\* `origin` is that repository's remote named origin: none, one of the
\* index's url or one of another url; `outcome` is how a clone ends.
Open(found, origin, outcome, above) ==
    LET res == open_or_clone_repo(found, origin, outcome)
    IN  /\ localHead' = IF ~res.ok THEN localHead
                         ELSE IF res.val = "cloned" THEN Len(remote)
                         ELSE IF found = "above" THEN above
                         ELSE localHead
        /\ headKind' = IF ~res.ok THEN headKind
                        ELSE IF res.val = "cloned" THEN HeadKind("Symbolic", "Peeled")
                        ELSE IF found = "above"
                             THEN (IF above = 0 THEN HeadKind("Unborn", "None") ELSE HeadKind("Symbolic", "Peeled"))
                        ELSE headKind
        /\ head' = IF res.ok THEN set_head' ELSE head
        /\ last' = [op |-> "with_options", name |-> <<>>, res |-> res,
                    found |-> found, origin |-> origin]
        /\ UNCHANGED <<remote, cache, writtenBy, lockVars, procVars>>

\* a fetch without its last two steps (the sanity check of the new HEAD and
\* set_head), against which C3 is checked
C3_Unchecked_Fetch(outcome, other) ==
    /\ localHead' = (IF outcome = "raced" THEN other ELSE Len(remote))
    /\ headKind' = edit_reference(head_edit)
    /\ last' = [op |-> "fetch", name |-> <<>>, res |-> Ok(None)]
    /\ UNCHANGED <<head, remote, cache, writtenBy, lockVars, procVars>>

\* RemoteGitIndex::fetch_with_options.  `outcome` is what the environment
\* does: the transfer fails, the remote shows no symbolic HEAD, the fetch
\* goes through, or another process moves the local HEAD to commit `other`
\* between the reference edit and the sanity check.
Fetch(outcome, other) ==
    /\ CASE outcome = "transfer_fails" ->
              /\ last' = [op |-> "fetch", name |-> <<>>, res |-> Err("Fetch")]
              /\ UNCHANGED <<localHead, headKind, head>>
         [] outcome = "no_remote_head" ->
              /\ last' = [op |-> "fetch", name |-> <<>>,
                          res |-> Err("UnableToFindRemoteHead")]
              /\ UNCHANGED <<localHead, headKind, head>>
         [] outcome = "raced" ->
              /\ other # Len(remote)
              /\ localHead' = other
              /\ headKind' = edit_reference(head_edit)
              /\ last' = [op |-> "fetch", name |-> <<>>,
                          res |-> Err("UnableToUpdateHead")]
              /\ UNCHANGED head
         [] OTHER ->
              /\ localHead' = Len(remote)
              /\ headKind' = edit_reference(head_edit)
              /\ head' = set_head'
              /\ last' = [op |-> "fetch", name |-> <<>>, res |-> Ok(None),
                          edit |-> head_edit, before |-> headKind, was |-> localHead]
    /\ UNCHANGED <<remote, cache, writtenBy, lockVars, procVars>>

FetchOutcomes == {"ok", "transfer_fails", "no_remote_head", "raced"}

\* the revisions another writer of the cache directory (cargo, a test)
\* gives an entry of `krate`
OtherRevisions(krate) ==
    {encode_hex(CommitOid(n)) : n \in {localHead} \ {0}}
      \cup {encode_hex(BlobOid(write_json_lines(krate)))}
      \cup {<<101, 116, 97, 103, 58, 32, 120>>}

\* another writer of the cache directory writes an entry
OtherWrite(krate, revision) ==
    /\ cache' = IndexCache_write_to_cache(cache, krate, revision, "ok")
    /\ writtenBy' = [writtenBy EXCEPT ![relative_path(krate_name(krate), SEP)] = "other"]
    /\ last' = [op |-> "write", name |-> <<>>, res |-> Ok(None)]
    /\ UNCHANGED <<remote, localHead, headKind, head, lockVars, procVars>>

\* a cargo older than 1.54 leaves an entry of cache version 2
OtherWriteOutdated(name) ==
    /\ cache' = [cache EXCEPT ![relative_path(name, SEP)] =
                   File(<<CURRENT_CACHE_VERSION - 1>>
                          \o SubSeq(write_cache_entry(Krate(name, 1), <<>>), 2, 14))]
    /\ writtenBy' = [writtenBy EXCEPT ![relative_path(name, SEP)] = "other"]
    /\ last' = [op |-> "write", name |-> <<>>, res |-> Ok(None)]
    /\ UNCHANGED <<remote, localHead, headKind, head, lockVars, procVars>>

\* a registry that holds both crates
FullTree == [p \in Paths |->
               Blob(write_json_lines(Krate(CHOOSE n \in CrateNames :
                                              relative_path(n, SEP) = p, 1)))]

InitGit ==
    /\ remote \in {<<EmptyTree>>, <<FullTree>>}
    /\ localHead \in {0, 1}
    /\ headKind = (IF localHead = 0 THEN HeadKind("Unborn", "None")
                   ELSE HeadKind("Symbolic", "Peeled"))
    /\ head = set_head
    /\ cache = [p \in Paths |-> NoFile]
    /\ writtenBy = [p \in Paths |-> "none"]
    /\ last = [op |-> "open", name |-> <<>>, res |-> Ok(None)]
    /\ LockIdle

\* no repository is open and the cache directory is empty
GitIdle ==
    /\ remote = <<EmptyTree>>
    /\ localHead = 0
    /\ headKind = HeadKind("Unborn", "None")
    /\ head = None
    /\ writtenBy = [p \in Paths |-> "none"]

\* the engine with the remote: commits, fetches and krate calls
NextGit ==
    \/ \E name \in CrateNames : \E entry \in EntriesOf(name) : Commit(name, entry)
    \/ \E name \in CrateNames : \E w \in BOOLEAN :
          \E io \in (IF w THEN IoOutcomes ELSE {"ok"}) : KrateCall(name, w, io)
    \/ \E outcome \in FetchOutcomes :
          \E other \in (IF outcome = "raced" THEN 1..Len(remote) ELSE {1}) :
             Fetch(outcome, other)
    \/ \E name \in CrateNames : LocalCachedKrate(name)
    \/ \E found \in {"none", "at_path", "above"} :
          \E origin \in (IF found = "none" THEN {"none"} ELSE {"none", "same", "other"}) :
             \E outcome \in (IF found = "at_path" \/ (found = "above" /\ origin # "other")
                              THEN {"ok"} ELSE {"ok", "clone_fails"}) :
                \E above \in (IF found = "above" /\ origin # "other"
                               THEN 0..Len(remote) ELSE {0}) :
                   Open(found, origin, outcome, above)

SpecGit == InitGit /\ [][NextGit]_vars

\* the engine reading a cache directory that another tool writes as well
NextGitCache ==
    \/ \E name \in CrateNames : \E entry \in EntriesOf(name) : Commit(name, entry)
    \/ \E outcome \in FetchOutcomes :
          \E other \in (IF outcome = "raced" THEN 1..Len(remote) ELSE {1}) :
             Fetch(outcome, other)
    \/ \E name \in CrateNames : \E revision \in OtherRevisions(Krate(name, 1)) :
          OtherWrite(Krate(name, 1), revision)
    \/ \E name \in CrateNames : OtherWriteOutdated(name)
    \/ \E name \in CrateNames : CachedKrateCall(name)
    \/ \E name \in CrateNames : LocalCachedKrate(name)

SpecGitCache == InitGit /\ [][NextGitCache]_vars

\* the engine is opened on a repository whose HEAD is of any kind: it refers
\* to a branch, which holds a commit id or refers to another branch, or it
\* is unborn, or detached; the commit HEAD resolves to is the remote's first
\* or one that the remote does not hold
InitHead ==
    /\ remote \in {<<EmptyTree>>, <<FullTree>>}
    /\ \E kind \in {"Symbolic", "Unborn", "Detached"} :
          \E target \in (IF kind = "Symbolic" THEN {"Peeled", "Symbolic"} ELSE {"None"}) :
             /\ headKind = HeadKind(kind, target)
             /\ localHead \in (IF kind = "Unborn" THEN {0} ELSE {1, LocalCommit})
    /\ head = set_head
    /\ cache = [p \in Paths |-> NoFile]
    /\ writtenBy = [p \in Paths |-> "none"]
    /\ last = [op |-> "open", name |-> <<>>, res |-> Ok(None)]
    /\ LockIdle

\* commits, fetches and krate calls
NextHead ==
    \/ \E name \in CrateNames : \E entry \in EntriesOf(name) : Commit(name, entry)
    \/ \E outcome \in FetchOutcomes :
          \E other \in (IF outcome = "raced" THEN 1..Len(remote) ELSE {1}) :
             Fetch(outcome, other)
    \/ \E name \in CrateNames : \E w \in BOOLEAN : KrateCall(name, w, "ok")

SpecHead == InitHead /\ [][NextHead]_vars

----------------------------------------------------------------------------
(* Processes that lock one path *)

FsKinds == {"rw", "ro", "nfs", "nfs_ro", "nolock"}

\* what the wait hook answers: no duration, half a millisecond, one
\* millisecond, or as many milliseconds as INFINITE
Timeouts == {None, Some([secs |-> 0, nanos |-> 500000]),
             Some([secs |-> 0, nanos |-> 1000000]),
             Some([secs |-> 4294967, nanos |-> 295000000])}

InitLock ==
    /\ fsKind \in FsKinds
    /\ osLock = [p \in Procs |-> "none"]
    /\ fileLock = [p \in Procs |-> "none"]
    /\ waiting = [p \in Procs |-> [state |-> "no", millis |-> [secs |-> 0, millis |-> 0]]]
    /\ pc = [p \in Procs |-> [at |-> "idle", krate |-> <<>>]]
    /\ marker = 0
    /\ cache = [p \in Paths |-> NoFile]
    /\ last = [op |-> "open", name |-> <<>>, res |-> Ok(None)]
    /\ GitIdle

NextLock ==
    \/ \E p \in Procs : \E exclusive \in BOOLEAN :
          \E shared_fallback \in (IF exclusive THEN BOOLEAN ELSE {FALSE}) :
             TryLock(p, exclusive, shared_fallback)
    \/ \E p \in Procs : \E exclusive \in BOOLEAN :
          \E shared_fallback \in (IF exclusive THEN BOOLEAN ELSE {FALSE}) :
             \E timeout \in Timeouts : Lock(p, exclusive, shared_fallback, timeout)
    \/ \E p \in Procs : LockGranted(p)
    \/ \E p \in Procs : LockTimedOut(p)
    \/ \E p \in Procs : Unlocked(p)
    \/ \E p \in Procs : Drop(p)

SpecLock == InitLock /\ [][NextLock]_vars

\* a wait of GetOverlappedResultEx that has a limit ends when the limit is
\* reached, if not before
SpecLockFair == SpecLock /\ \A p \in Procs : WF_vars(LockTimedOut(p))

----------------------------------------------------------------------------
(* index/sparse.rs: SparseIndex *)

\* http::header::ETAG and LAST_MODIFIED as they print and compare: a
\* HeaderName holds lower-case bytes ("etag", "last-modified")
ETAG == <<101, 116, 97, 103>>
LAST_MODIFIED == <<108, 97, 115, 116, 45, 109, 111, 100, 105, 102, 105, 101, 100>>

\* the literal "Unknown"
Unknown == <<85, 110, 107, 110, 111, 119, 110>>

to_ascii_lowercase(s) ==
    [i \in 1..Len(s) |-> IF s[i] \in 65..90 THEN s[i] + 32 ELSE s[i]]

\* `key == header::ETAG`: str compares with a HeaderName ignoring ASCII case
eq_header_name(key, header) == to_ascii_lowercase(key) = header

\* str::split_once(':')
split_once(s, delimiter) ==
    LET pos == memchr(delimiter, s)
    IN  IF pos = 0 THEN None
        ELSE Some([key |-> SubSeq(s, 1, pos - 1), value |-> SubSeq(s, pos + 1, Len(s))])

\* str::trim: white space is removed at both ends
RECURSIVE trim(_)
trim(s) ==
    IF s # <<>> /\ s[1] \in {9, 10, 11, 12, 13, 32} THEN trim(Tail(s))
    ELSE IF s # <<>> /\ s[Len(s)] \in {9, 10, 11, 12, 13, 32}
         THEN trim(SubSeq(s, 1, Len(s) - 1))
    ELSE s

\* HeaderValue::from_str succeeds: no control byte but the tab
is_valid_header_value(s) ==
    \A i \in 1..Len(s) : (s[i] >= 32 /\ s[i] # 127) \/ s[i] = 9

\* HeaderValue::to_str succeeds: visible ASCII, space and tab only
is_visible_ascii(s) ==
    \A i \in 1..Len(s) : (s[i] >= 32 /\ s[i] < 127) \/ s[i] = 9

\* a request that never looks at the cache, against which C7 is checked
C7_No_cache_version(name) == None

\* the closure set_cache_version of make_remote_request: the header it
\* inserts, None when it inserts none
set_cache_version(name) ==
    LET contents == read_cache_file(cache, name)
        valid == ValidCacheEntry_read(contents.val.val)
        kv == split_once(valid.val.revision, 58)
        value == trim(kv.val.value)
    IN  IF ~contents.ok \/ ~contents.val.some THEN None
        ELSE IF ~valid.ok THEN None
        ELSE IF ~kv.some THEN None
        ELSE IF ~is_valid_header_value(value) THEN None
        ELSE IF eq_header_name(kv.val.key, ETAG)
             THEN Some([name |-> "if-none-match", value |-> value])
        ELSE IF eq_header_name(kv.val.key, LAST_MODIFIED)
             THEN Some([name |-> "if-modified-since", value |-> value])
        ELSE None

HeaderNames ==
    {"cargo-protocol", "accept", "accept-encoding", "if-none-match", "if-modified-since"}

\* a make_remote_request that fails when the cache file cannot be read,
\* against which C34 is checked
C34_Strict_make_remote_request(name) ==
    LET contents == read_cache_file(cache, name)
    IN  IF ~contents.ok THEN contents
        ELSE Ok([method |-> "GET",
                 uri |-> relative_path(name, 47),
                 headers |-> [h \in HeaderNames |->
                     CASE h = "cargo-protocol" -> Some("version=1")
                       [] h = "accept" -> Some("text/plain")
                       [] h = "accept-encoding" -> Some("gzip,identity")
                       [] OTHER -> None]])

\* SparseIndex::make_remote_request; the uri is the crate's path below url()
make_remote_request(name) ==
    LET conditional == set_cache_version(name)
    IN  Ok([method |-> "GET",
            uri |-> relative_path(name, 47),
            headers |-> [h \in HeaderNames |->
                CASE h = "cargo-protocol" -> Some("version=1")
                  [] h = "accept" -> Some("text/plain")
                  [] h = "accept-encoding" -> Some("gzip,identity")
                  [] OTHER -> IF conditional.some /\ conditional.val.name = h
                              THEN Some(conditional.val.value) ELSE None]])

\* a revision that ignores the response's headers, against which C10 is
\* checked
C10_Unknown_revision(response) == Unknown

\* the revision parse_remote_response derives from a 200 response: the ETag
\* header is preferred to Last-Modified, a header that is no visible ASCII
\* gives no version, and no version gives "Unknown"
response_revision(response) ==
    LET version ==
            IF response.etag.some
            THEN IF is_visible_ascii(response.etag.val)
                 THEN Some(ETAG \o <<58, 32>> \o response.etag.val) ELSE None
            ELSE IF response.last_modified.some
            THEN IF is_visible_ascii(response.last_modified.val)
                 THEN Some(LAST_MODIFIED \o <<58, 32>> \o response.last_modified.val)
                 ELSE None
            ELSE None
    IN  IF version.some THEN version.val ELSE Unknown

\* HttpError::StatusCode
StatusCode(code, msg) == [ok |-> FALSE, err |-> "StatusCode", code |-> code, msg |-> msg]

\* a parse_remote_response for which every status means "no entry", against
\* which C9 is checked
C9_Lenient_parse_remote_response(name, response, write_cache_entry_, io) ==
    [ret |-> Ok(None), cache |-> cache, wrote |-> FALSE]

\* a parse_remote_response that keeps one entry for the whole index, the
\* one written last, in the place of one per crate, against which C29 is
\* checked
C29_Global_parse_remote_response(name, response, write_cache_entry_, io) ==
    LET krate == from_slice(response.body)
        same(ret) == [ret |-> ret, cache |-> cache, wrote |-> FALSE]
        written == IndexCache_write_to_cache(
                       cache, krate.val, response_revision(response), io)
    IN  CASE response.status = 200 ->
               IF ~krate.ok THEN same(krate)
               ELSE IF ~write_cache_entry_ THEN same(Ok(Some(krate.val)))
               ELSE [ret |-> Ok(Some(krate.val)),
                     cache |-> [p \in Paths |->
                                  written[relative_path(krate_name(krate.val), SEP)]],
                     wrote |-> io # "create_fails"]
          [] response.status = 304 -> same(IndexCache_cached_krate(cache, name, None))
          [] response.status \in {404, 410, 451} -> same(Ok(None))
          [] OTHER ->
               same(StatusCode(response.status,
                               "the status code is invalid for this protocol"))

\* a parse_remote_response that writes the entry of a 200 response whether
\* asked to or not, against which C37 is checked
C37_Eager_parse_remote_response(name, response, write_cache_entry_, io) ==
    LET krate == from_slice(response.body)
        same(ret) == [ret |-> ret, cache |-> cache, wrote |-> FALSE]
    IN  IF response.status = 200 /\ krate.ok
        THEN [ret |-> Ok(Some(krate.val)),
              cache |-> IndexCache_write_to_cache(
                            cache, krate.val, response_revision(response), io),
              wrote |-> io # "create_fails"]
        ELSE IF response.status = 304
        THEN same(IndexCache_cached_krate(cache, name, None))
        ELSE same(Ok(None))

\* SparseIndex::parse_remote_response: what it returns (ret), the cache
\* directory afterwards (cache) and whether it wrote or removed a cache file
parse_remote_response(name, response, write_cache_entry_, io) ==
    LET krate == from_slice(response.body)
        same(ret) == [ret |-> ret, cache |-> cache, wrote |-> FALSE]
    IN  CASE response.status = 200 ->
               IF ~krate.ok THEN same(krate)
               ELSE IF ~write_cache_entry_ THEN same(Ok(Some(krate.val)))
               ELSE [ret |-> Ok(Some(krate.val)),
                     cache |-> IndexCache_write_to_cache(
                                   cache, krate.val, response_revision(response), io),
                     wrote |-> io # "create_fails"]
          [] response.status = 304 -> same(IndexCache_cached_krate(cache, name, None))
          [] response.status = 401 ->
               same(StatusCode(401, "the request was not authorized"))
          [] response.status \in {404, 410, 451} -> same(Ok(None))
          [] OTHER ->
               same(StatusCode(response.status,
                               "the status code is invalid for this protocol"))

----------------------------------------------------------------------------
(* A sparse index and the tools that share its cache directory *)

\* SparseIndex::make_remote_request(name).  `etag` is the etag the callers in
\* tests/sparse.rs hand over as a second argument, for which the function of
\* sparse.rs has no parameter.
MakeRemoteRequest(name, etag) ==
    /\ last' = [op |-> "make_remote_request", name |-> name,
                res |-> make_remote_request(name), etag |-> etag]
    /\ UNCHANGED <<cache, gitVars, lockVars, procVars>>

\* SparseIndex::parse_remote_response(name, response, write_cache_entry)
ParseRemoteResponse(name, response, write_cache_entry_, io) ==
    LET out == parse_remote_response(name, response, write_cache_entry_, io)
        path == relative_path(krate_name(out.ret.val.val), SEP)
    IN  /\ cache' = out.cache
        /\ writtenBy' =
             IF out.wrote
             THEN [writtenBy EXCEPT ![path] = IF io = "ok" THEN "parse" ELSE "none"]
             ELSE writtenBy
        /\ last' = [op |-> "parse_remote_response", name |-> name, res |-> out.ret,
                    response |-> response, write |-> write_cache_entry_, io |-> io]
        /\ UNCHANGED <<remote, localHead, headKind, head, lockVars, procVars>>

\* the values of a response's ETag header: "x" and a byte of obs-text; its
\* Last-Modified header, when there is one, is " z"
HeaderValues == {<<120>>, <<200>>}

\* the bodies a response carries: the index file of either crate
Bodies == {write_json_lines(Krate(n, 1)) : n \in CrateNames}

Statuses == {200, 304, 401, 403, 404, 410, 451, 500}

\* the responses of a status; one 200 response carries the body "x", which
\* is no index file; a 304 response comes with and without an ETag header
Responses(status) ==
    IF status = 200
    THEN {[etag |-> etag, last_modified |-> last_modified, body |-> body, status |-> 200] :
             etag \in {None} \cup {Some(v) : v \in HeaderValues},
             last_modified \in {None, Some(<<32, 122>>)},
             body \in Bodies}
         \cup {[etag |-> Some(<<120>>), last_modified |-> None, body |-> <<120>>,
                 status |-> 200]}
    ELSE {[etag |-> etag, last_modified |-> None, body |-> <<>>, status |-> status] :
             etag \in (IF status = 304 THEN {None, Some(<<120>>)} ELSE {None})}

\* the revisions cargo or another tool gives an entry: "ETag: x",
\* "Last-Modified: z", "etag: " with a control byte, "foo: x"
SparseRevisions ==
    { <<69, 84, 97, 103, 58, 32, 120>>,
      <<76, 97, 115, 116, 45, 77, 111, 100, 105, 102, 105, 101, 100, 58, 32, 122>>,
      <<101, 116, 97, 103, 58, 32, 1>>,
      <<102, 111, 111, 58, 32, 120>> }

InitSparse ==
    /\ cache = [p \in Paths |-> NoFile]
    /\ last = [op |-> "open", name |-> <<>>, res |-> Ok(None)]
    /\ GitIdle
    /\ LockIdle

NextSparse ==
    \/ \E name \in CrateNames : \E etag \in {None, Some(<<200>>)} :
          MakeRemoteRequest(name, etag)
    \/ \E name \in CrateNames : \E status \in Statuses :
          \E response \in Responses(status) : \E w \in BOOLEAN :
             \E io \in (IF w /\ status = 200 THEN IoOutcomes ELSE {"ok"}) :
                ParseRemoteResponse(name, response, w, io)
    \/ \E name \in CrateNames : \E revision \in SparseRevisions :
          OtherWrite(Krate(name, 1), revision)

SpecSparse == InitSparse /\ [][NextSparse]_vars

\* the cache holds at most one file, the entry of the crate "a": none, one
\* that cannot be read, a prefix of an entry of each revision, or an entry
\* with another cache version or another index version
InitRequest ==
    /\ LET entries == {write_cache_entry(Krate(<<97>>, 1), rev) : rev \in SparseRevisions}
           prefixes == UNION {{SubSeq(e, 1, n) : n \in 0..Len(e)} : e \in entries}
           versioned == {<<v>> \o Tail(e) : e \in entries, v \in {2, 4}}
           indexed == {<<e[1]>> \o iv \o SubSeq(e, 6, Len(e)) :
                          e \in entries, iv \in {<<1, 0, 0, 0>>, <<3, 0, 0, 0>>}}
       IN  \E f \in {NoFile, Unreadable}
                        \cup {File(b) : b \in prefixes \cup versioned \cup indexed} :
              cache = [p \in Paths |-> IF p = relative_path(<<97>>, SEP) THEN f ELSE NoFile]
    /\ last = [op |-> "open", name |-> <<>>, res |-> Ok(None)]
    /\ GitIdle
    /\ LockIdle

NextRequest == \E name \in CrateNames : MakeRemoteRequest(name, None)

SpecRequest == InitRequest /\ [][NextRequest]_vars

----------------------------------------------------------------------------
(* The cache directory and the local view of the git index, called by
   themselves *)

\* IndexCache::write_to_cache(krate, revision).  `io` is what the file system
\* does: as in IndexCache_write_to_cache, or the write fails and the removal
\* of the file, whose result is dropped, fails too, which leaves the first
\* `written` bytes of the entry
WriteToCache(krate, revision, io, written) ==
    LET cache_path == relative_path(krate_name(krate), SEP)
        buffer == write_cache_entry(krate, revision)
    IN  /\ cache' = IF io = "remove_fails"
                    THEN [cache EXCEPT ![cache_path] = File(SubSeq(buffer, 1, written))]
                    ELSE IndexCache_write_to_cache(cache, krate, revision, io)
        /\ writtenBy' = [writtenBy EXCEPT ![cache_path] =
                           IF io = "ok" THEN "other"
                           ELSE IF io = "create_fails" THEN @ ELSE "none"]
        /\ last' = [op |-> "write_to_cache", name |-> krate_name(krate),
                    res |-> IF io = "ok" THEN Ok(cache_path) ELSE Err("IoPath"),
                    io |-> io, krate |-> krate, revision |-> revision]
        /\ UNCHANGED <<remote, localHead, headKind, head, lockVars, procVars>>

\* GitIndex::set_head_commit(commit_id)
SetHeadCommit(commit_id) ==
    /\ head' = set_head_commit(commit_id)
    /\ last' = [op |-> "set_head_commit", name |-> <<>>, res |-> Ok(None)]
    /\ UNCHANGED <<remote, localHead, headKind, cache, writtenBy, lockVars, procVars>>

\* GitIndex::write_to_cache(krate)
GitWriteToCache(krate, io, written) ==
    LET cache_path == relative_path(krate_name(krate), SEP)
        wrote == head_commit.some /\ io # "create_fails"
    IN  /\ cache' = IF head_commit.some /\ io = "remove_fails"
                    THEN [cache EXCEPT ![cache_path] =
                            File(SubSeq(write_cache_entry(krate, head_commit.val), 1, written))]
                    ELSE GitIndex_write_to_cache(krate, None, io)
        /\ writtenBy' = IF wrote
                        THEN [writtenBy EXCEPT ![cache_path] =
                                IF io = "ok" THEN "krate" ELSE "none"]
                        ELSE writtenBy
        /\ last' = [op |-> "git_write_to_cache", name |-> krate_name(krate),
                    res |-> IF ~head_commit.some THEN Ok(None)
                            ELSE IF io = "ok" THEN Ok(Some(cache_path))
                            ELSE Err("IoPath"),
                    io |-> io, krate |-> krate]
        /\ UNCHANGED <<remote, localHead, headKind, head, lockVars, procVars>>

\* krates of two versions and of one are written under a commit id and
\* under "x"; the head commit is unset or set.  A write that fails and is not
\* removed leaves nothing, the version bytes, the revision too, the first
\* byte of the first blob too, the whole first version, or all but the last
\* byte
NextLocal ==
    LET cuts(krate, revision) ==
            {n \in {0, 5, 6 + Len(revision), 9 + Len(revision), 14 + Len(revision),
                    Len(write_cache_entry(krate, revision)) - 1} :
                n < Len(write_cache_entry(krate, revision))}
    IN  \/ \E krate \in {Krate(<<97>>, 2), Krate(<<98>>, 1)} :
              \E revision \in {encode_hex(CommitOid(1)), <<120>>} :
                 \E io \in IoOutcomes \cup {"remove_fails"} :
                    \E written \in (IF io = "remove_fails" THEN cuts(krate, revision)
                                     ELSE {0}) :
                       WriteToCache(krate, revision, io, written)
        \/ \E commit_id \in {None, Some(CommitOid(1))} : SetHeadCommit(commit_id)
        \/ \E krate \in {Krate(<<97>>, 2), Krate(<<98>>, 1)} :
              \E io \in IoOutcomes \cup {"remove_fails"} :
                 \E written \in (IF io = "remove_fails" /\ head_commit.some
                                  THEN cuts(krate, head_commit.val) ELSE {0}) :
                    GitWriteToCache(krate, io, written)
        \/ \E name \in CrateNames : LocalCachedKrate(name)

SpecLocal == InitSparse /\ [][NextLocal]_vars

----------------------------------------------------------------------------
(* Both engines writing cache entries that may fail to be written *)

\* krate(name, true) of the git engine and parse_remote_response of a 200
\* response with write_cache_entry set, on the same cache directory
NextBestEffort ==
    \/ \E name \in CrateNames : \E io \in IoOutcomes : KrateCall(name, TRUE, io)
    \/ \E name \in CrateNames : \E response \in Responses(200) : \E io \in IoOutcomes :
          ParseRemoteResponse(name, response, TRUE, io)

SpecBestEffort == InitGit /\ [][NextBestEffort]_vars

----------------------------------------------------------------------------
(* index/sparse_remote.rs: RemoteSparseIndex::krate, and the batch calls
   krates and krates_async that run one krate per name on a pool of workers.
   While a batch runs `last` holds it: the names, the response the registry
   gives each name, the cache directory it started on (cache0), the names no
   worker has taken yet (pending) and the results gathered so far. *)

\* krates(names, write_cache_entry): the names are handed to the pool
KratesBegin(names, responses, write_cache_entry_) ==
    /\ last.op # "krates"
    /\ last' = [op |-> "krates", names |-> names, responses |-> responses,
                write |-> write_cache_entry_, cache0 |-> cache, pending |-> names,
                results |-> [n \in {} |-> Ok(None)]]
    /\ UNCHANGED <<cache, gitVars, lockVars, procVars>>

\* RemoteSparseIndex::krate up to client.execute: a worker takes a name,
\* builds its request and sends it
ExecuteBegin(p, name) ==
    /\ last.op = "krates"
    /\ name \in last.pending
    /\ pc[p].at = "idle"
    /\ make_remote_request(name).ok
    /\ pc' = [pc EXCEPT ![p] = [at |-> "execute", krate |-> name]]
    /\ last' = [last EXCEPT !.pending = @ \ {name}]
    /\ UNCHANGED <<cache, gitVars, lockVars, marker>>

\* the rest of RemoteSparseIndex::krate: the response has arrived and
\* parse_remote_response handles it; the result is entered under the name
ExecuteEnd(p, io) ==
    LET name == pc[p].krate
        out == parse_remote_response(name, last.responses[name], last.write, io)
        path == relative_path(krate_name(out.ret.val.val), SEP)
    IN  /\ pc[p].at = "execute"
        /\ cache' = out.cache
        /\ writtenBy' =
             IF out.wrote
             THEN [writtenBy EXCEPT ![path] = IF io = "ok" THEN "parse" ELSE "none"]
             ELSE writtenBy
        /\ pc' = [pc EXCEPT ![p] = [at |-> "idle", krate |-> <<>>]]
        /\ last' = [last EXCEPT !.results =
                      [n \in DOMAIN @ \cup {name} |-> IF n = name THEN out.ret ELSE @[n]]]
        /\ UNCHANGED <<remote, localHead, headKind, head, lockVars, marker>>

\* every name has its result: the map is returned
KratesEnd ==
    /\ last.op = "krates"
    /\ last.pending = {}
    /\ \A p \in Procs : pc[p].at = "idle"
    /\ last' = [last EXCEPT !.op = "krates_returned"]
    /\ UNCHANGED <<cache, gitVars, lockVars, procVars>>

\* the responses the registry gives a name in a batch: the index file of
\* either crate with an ETag, not modified, not found, a server error
BatchResponses ==
    {r \in Responses(200) : r.etag = Some(<<120>>) /\ r.last_modified = None
                              /\ r.body \in Bodies}
    \cup {r \in Responses(304) : r.etag = None} \cup Responses(404) \cup Responses(500)

NextBatch ==
    \/ \E names \in SUBSET CrateNames \ {{}} : \E responses \in [names -> BatchResponses] :
          \E w \in BOOLEAN : KratesBegin(names, responses, w)
    \/ \E p \in Procs : \E name \in CrateNames : ExecuteBegin(p, name)
    \/ \E p \in Procs : \E io \in {"ok", "write_fails"} : ExecuteEnd(p, io)
    \/ KratesEnd

SpecBatch == InitSparse /\ [][NextBatch]_vars

----------------------------------------------------------------------------
(* utils.rs: canonicalize_url and url_to_local_dir.  A u64 is held as its
   four 16-bit limbs, lowest first. *)

\* the exclusive or of two integers of n bits
xor_bits[a \in Nat, b \in Nat, n \in Nat] ==
    IF n = 0 THEN 0 ELSE ((a + b) % 2) + (2 * xor_bits[a \div 2, b \div 2, n - 1])

\* a ^ b of two u64
xor[a \in Seq(Nat), b \in Seq(Nat)] ==
    <<xor_bits[a[1], b[1], 16], xor_bits[a[2], b[2], 16],
      xor_bits[a[3], b[3], 16], xor_bits[a[4], b[4], 16]>>

\* one round of SipHash on the state <<v0, v1, v2, v3>>
sipround[v \in Seq(Seq(Nat))] ==
    LET \* a.wrapping_add(b)
        add[a \in Seq(Nat), b \in Seq(Nat)] ==
            LET s1 == a[1] + b[1]
                s2 == a[2] + b[2] + (s1 \div 65536)
                s3 == a[3] + b[3] + (s2 \div 65536)
                s4 == a[4] + b[4] + (s3 \div 65536)
            IN  <<s1 % 65536, s2 % 65536, s3 % 65536, s4 % 65536>>
        \* a.rotate_left(16 * q + r)
        rotl[a \in Seq(Nat), q \in Nat, r \in Nat] ==
            LET limb(i) ==
                    ((a[((i - 1 - q) % 4) + 1] % (2 ^ (16 - r))) * (2 ^ r))
                      + (a[((i - 2 - q) % 4) + 1] \div (2 ^ (16 - r)))
            IN  <<limb(1), limb(2), limb(3), limb(4)>>
        a0 == add[v[1], v[2]]
        a1 == xor[rotl[v[2], 0, 13], a0]
        a2 == add[v[3], v[4]]
        a3 == xor[rotl[v[4], 1, 0], a2]
        c0 == add[rotl[a0, 2, 0], a3]
        c2 == add[a2, a1]
    IN  <<c0, xor[rotl[a1, 1, 1], c2], rotl[c2, 2, 0], xor[rotl[a3, 1, 5], c0]>>

\* Hasher::write of n whole blocks of eight bytes to the state v: two rounds
\* for each
SipHasher_write[v \in Seq(Seq(Nat)), msg \in Seq(Nat), n \in Nat] ==
    LET \* the block as a u64, the rounds with it, the state after them
        compress[m \in Seq(Nat)] ==
            LET mixed[w \in Seq(Seq(Nat))] == <<xor[w[1], m], w[2], w[3], w[4]>>
            IN  mixed[sipround[sipround[<<v[1], v[2], v[3], xor[v[4], m]>>]]]
    IN  IF n = 0 THEN v
        ELSE SipHasher_write[
                 compress[<<msg[1] + (256 * msg[2]), msg[3] + (256 * msg[4]),
                            msg[5] + (256 * msg[6]), msg[7] + (256 * msg[8])>>],
                 SubSeq(msg, 9, Len(msg)), n - 1]

\* SipHasher::new_with_keys(0, 0), the bytes written, finish(), to_le_bytes():
\* the last block ends with the length, four rounds finish
SipHasher_finish[bytes \in Seq(Nat)] ==
    LET padded == bytes \o [i \in 1..(7 - (Len(bytes) % 8)) |-> 0] \o <<Len(bytes) % 256>>
        rounds[v \in Seq(Seq(Nat))] ==
            sipround[sipround[sipround[sipround[
                <<v[1], v[2], xor[v[3], <<255, 0, 0, 0>>], v[4]>>]]]]
        folded[w \in Seq(Seq(Nat))] == xor[xor[w[1], w[2]], xor[w[3], w[4]]]
        to_le_bytes[h \in Seq(Nat)] ==
            <<h[1] % 256, h[1] \div 256, h[2] % 256, h[2] \div 256,
              h[3] % 256, h[3] \div 256, h[4] % 256, h[4] \div 256>>
    IN  to_le_bytes[folded[rounds[SipHasher_write[
            << <<25973, 28787, 28005, 29551>>, <<28525, 28260, 29281, 25711>>,
               <<29281, 28261, 26469, 27769>>, <<25971, 31092, 25698, 29797>> >>,
            padded, (Len(bytes) \div 8) + 1]]]]

\* str::find: the position of the first occurrence of pat in s, 0 when there
\* is none
find(s, pat) ==
    LET at(i) == SubSeq(s, i, i + Len(pat) - 1) = pat
    IN  IF \E i \in 1..(Len(s) - Len(pat) + 1) : at(i)
        THEN CHOOSE i \in 1..(Len(s) - Len(pat) + 1) : at(i) /\ \A j \in 1..(i - 1) : ~at(j)
        ELSE 0

\* str::rfind of a char: the position of its last occurrence, 0 when there
\* is none
rfind(s, c) ==
    IF \E i \in 1..Len(s) : s[i] = c
    THEN CHOOSE i \in 1..Len(s) : s[i] = c /\ \A j \in (i + 1)..Len(s) : s[j] # c
    ELSE 0

GIT_REPO == 0
GIT_REGISTRY == 2
SPARSE_REGISTRY == 3

\* the host of a url whose host begins at position start: up to the first
\* '/', the port trimmed
url_host(url, start) ==
    LET rest == SubSeq(url, start, Len(url))
        slash == memchr(47, rest)
        host == IF slash = 0 THEN rest ELSE SubSeq(rest, 1, slash - 1)
        colon == memchr(58, host)
    IN  IF colon = 0 THEN host ELSE SubSeq(host, 1, colon - 1)

\* canonicalize_url
canonicalize_url(url_) ==
    LET github == <<103, 105, 116, 104, 117, 98, 46, 99, 111, 109>>    \* "github.com"
        \* strip_prefix("git+")
        stripped(u) == IF find(u, <<103, 105, 116, 43>>) = 1 THEN SubSeq(u, 5, Len(u)) ELSE u
        \* github.com is lowercased, the host is what follows "://"
        lowered(u) == IF url_host(u, find(u, <<58, 47, 47>>) + 3) = github
                      THEN to_ascii_lowercase(u) ELSE u
        \* truncate at the last c
        truncate(s, c) == IF rfind(s, c) = 0 THEN s ELSE SubSeq(s, 1, rfind(s, c) - 1)
        \* a trailing '/' is popped
        popped(s) == IF s # <<>> /\ s[Len(s)] = 47 THEN SubSeq(s, 1, Len(s) - 1) ELSE s
        \* ".git" is stripped of a url with "github.com/"
        ungit(s) == IF find(s, github \o <<47>>) # 0
                         /\ Len(s) >= 4
                         /\ SubSeq(s, Len(s) - 3, Len(s)) = <<46, 103, 105, 116>>
                    THEN SubSeq(s, 1, Len(s) - 4) ELSE s
        \* the fragment goes from the last '#', then the query from the last '?'
        canonical(u) == IF find(u, <<58, 47, 47>>) = 0 THEN Err("MissingScheme")
                        ELSE Ok(ungit(popped(truncate(truncate(lowered(u), 35), 63))))
    IN  canonical(stripped(url_))

\* url_to_local_dir
url_to_local_dir(url_) ==
    LET sparse == <<115, 112, 97, 114, 115, 101>>                        \* "sparse"
        registry == <<114, 101, 103, 105, 115, 116, 114, 121>>          \* "registry"
        git == <<103, 105, 116>>                                        \* "git"
        \* the bytes of the url that the modifier takes
        cut(modifier) == IF ~modifier.some THEN 0
                         ELSE IF modifier.val.key = registry THEN 9
                         ELSE IF modifier.val.key = git THEN 4
                         ELSE 0
        kind(modifier) == IF ~modifier.some \/ modifier.val.key = registry THEN GIT_REGISTRY
                          ELSE IF modifier.val.key = git THEN GIT_REPO
                          ELSE SPARSE_REGISTRY
        ident(bytes) == encode_hex(SipHasher_finish[bytes])
        \* a git repository: the canonical url is hashed, the name is its last
        \* path segment
        repo(canonical) ==
            IF ~canonical.ok THEN canonical
            ELSE Ok([dir_name |->
                       SubSeq(canonical.val, rfind(canonical.val, 47) + 1,
                              Len(canonical.val))
                         \o <<45>> \o ident(canonical.val \o <<255>>),
                     canonical |-> canonical.val])
        \* a registry: the kind and the url as given are hashed, the name is
        \* the host
        index(k, url, host) ==
            Ok([dir_name |->
                  url_host(url, host) \o <<45>>
                    \o ident(<<k, 0, 0, 0, 0, 0, 0, 0>> \o url \o <<255>>),
                canonical |-> url])
        dir(scheme, modifier) ==
            IF scheme = 0 THEN Err("MissingScheme")
            ELSE IF modifier.some /\ modifier.val.key \notin {sparse, registry, git}
                 THEN Err("UnknownSchemeModifier")
            ELSE IF kind(modifier) = GIT_REPO
                 THEN repo(canonicalize_url(SubSeq(url_, cut(modifier) + 1, Len(url_))))
            ELSE index(kind(modifier), SubSeq(url_, cut(modifier) + 1, Len(url_)),
                       scheme - cut(modifier) + 3)
    IN  dir(find(url_, <<58, 47, 47>>),                                  \* "://"
            split_once(SubSeq(url_, 1, find(url_, <<58, 47, 47>>) - 1), 43))   \* '+'

----------------------------------------------------------------------------
(* index.rs: IndexConfig::download_url, in the iterations of its loops.
   While a call runs `last` holds it: the template (config.dl), the name and
   the version, the string dl as it is now and as it was before the latest
   iteration, the loop the call is in (at) and the iterations made. *)

\* the iterations of download_url's loops a call is followed for
MaxIterations == 4

\* download_url is called with the template, name and version drawn:
\* dl = self.dl.clone().  A KrateName is not empty and is ASCII (lib.rs,
\* TryFrom)
DownloadUrlBegin ==
    /\ last.op = "config"
    /\ last.name # <<>>
    /\ \A i \in 1..Len(last.name) : last.name[i] < 128
    /\ last' = [op |-> "download_url", template |-> last.template, name |-> last.name,
                version |-> last.version, dl |-> last.template, before |-> last.template,
                at |-> "crate", iterations |-> 0]
    /\ UNCHANGED <<cache, gitVars, lockVars, procVars>>

\* one evaluation of the condition of the loop the call is in: the first
\* occurrence of the placeholder is replaced, or there is none and the call
\* goes on to the next loop, or returns dl
DownloadUrlStep ==
    LET CRATE == <<123, 99, 114, 97, 116, 101, 125>>                     \* "{crate}"
        VERSION == <<123, 118, 101, 114, 115, 105, 111, 110, 125>>       \* "{version}"
        PREFIX == <<123, 112, 114, 101, 102, 105, 120>> \o <<125>>       \* "{prefix}"
        LOWERPREFIX == <<123, 108, 111, 119, 101, 114>> \o Tail(PREFIX)  \* "{lowerprefix}"
        dl == last.dl
        pat == CASE last.at = "crate" -> CRATE
                 [] last.at = "version" -> VERSION
                 [] last.at = "prefix" -> PREFIX
                 [] OTHER -> LOWERPREFIX
        with == CASE last.at = "crate" -> last.name
                  [] last.at = "version" -> last.version
                  [] last.at = "prefix" -> prefix(last.name, 47)
                  [] OTHER -> to_ascii_lowercase(prefix(last.name, 47))
        start == find(dl, pat)
        next == CASE last.at = "crate" -> "version"
                  [] last.at = "version" ->
                       IF find(dl, PREFIX) # 0 \/ find(dl, LOWERPREFIX) # 0
                       THEN "prefix" ELSE "returned"
                  [] last.at = "prefix" ->
                       IF find(dl, LOWERPREFIX) # 0 THEN "lowerprefix" ELSE "returned"
                  [] OTHER -> "returned"
    IN  /\ last.op = "download_url"
        /\ last.at # "returned"
        /\ IF start # 0
           THEN /\ last.iterations < MaxIterations
                \* dl.replace_range(start..start + pat.len(), with)
                /\ last' = [last EXCEPT
                              !.dl = SubSeq(dl, 1, start - 1) \o with
                                       \o SubSeq(dl, start + Len(pat), Len(dl)),
                              !.before = dl,
                              !.iterations = @ + 1]
           ELSE last' = [last EXCEPT !.at = next]
        /\ UNCHANGED <<cache, gitVars, lockVars, procVars>>

----------------------------------------------------------------------------
(* The location resolver and the download urls of an index *)

\* url_to_local_dir of the url drawn
UrlToLocalDir ==
    /\ last.op = "url"
    /\ last' = [op |-> "url_to_local_dir", url |-> last.url,
                res |-> url_to_local_dir(last.url)]
    /\ UNCHANGED <<cache, gitVars, lockVars, procVars>>

\* a url is drawn: a scheme modifier or none, then "https://h/i",
\* "https://H:8/i/j", "https://github.com/A/b" or "h/i", then ".git" or not,
\* then a tail of "/", a query, a fragment or both; or the template, the name
\* and the version of a download url are drawn
InitLocation ==
    /\ \/ \E modifier \in {<<>>,
                           <<114, 101, 103, 105, 115, 116, 114, 121, 43>>,    \* "registry+"
                           <<103, 105, 116, 43>>,                            \* "git+"
                           <<115, 112, 97, 114, 115, 101, 43>>,              \* "sparse+"
                           <<102, 111, 111, 43>>} :                          \* "foo+"
             \E url \in {<<104, 116, 116, 112, 115, 58, 47, 47, 104, 47, 105>>,
                         <<104, 116, 116, 112, 115, 58, 47, 47, 72, 58, 56, 47, 105, 47, 106>>,
                         <<104, 116, 116, 112, 115, 58, 47, 47, 103, 105, 116, 104, 117, 98,
                           46, 99, 111, 109, 47, 65, 47, 98>>,
                         <<104, 47, 105>>} :
                \E git \in {<<>>, <<46, 103, 105, 116>>} :
                   \E tail \in {<<>>, <<47>>, <<63, 97, 61, 49>>, <<35, 102>>,
                                <<63, 97, 61, 49, 35, 102>>} :
                      last = [op |-> "url", url |-> modifier \o url \o git \o tail]
       \/ \E template \in {\* "{crate}-{version}", "{prefix}/{crate}",
                           \* "{lowerprefix}/{crate}", "x"
                           <<123, 99, 114, 97, 116, 101, 125, 45,
                             123, 118, 101, 114, 115, 105, 111, 110, 125>>,
                           <<123, 112, 114, 101, 102, 105, 120, 125, 47,
                             123, 99, 114, 97, 116, 101, 125>>,
                           <<123, 108, 111, 119, 101, 114, 112, 114, 101, 102, 105, 120, 125,
                             47, 123, 99, 114, 97, 116, 101, 125>>,
                           <<120>>} :
             \E name \in {\* "Ab", "{crate}", "x{crate}"
                          <<65, 98>>, <<123, 99, 114, 97, 116, 101, 125>>,
                          <<120, 123, 99, 114, 97, 116, 101, 125>>} :
                \E version \in {\* "1", "{crate}", "{version}"
                                <<49>>, <<123, 99, 114, 97, 116, 101, 125>>,
                                <<123, 118, 101, 114, 115, 105, 111, 110, 125>>} :
                   last = [op |-> "config", template |-> template, name |-> name,
                           version |-> version]
    /\ cache = [p \in Paths |-> NoFile]
    /\ GitIdle
    /\ LockIdle

NextLocation ==
    \/ UrlToLocalDir
    \/ DownloadUrlBegin
    \/ DownloadUrlStep

SpecLocation == InitLocation /\ [][NextLocation]_vars

----------------------------------------------------------------------------
(* Cache entries written and read back *)

\* the iteration order of a HashMap is the hasher's: the features map of
\* version i of a krate that was just deserialized iterates its keys in the
\* order they were read, or (flips[i]) in the opposite order
rehash(krate, flips) ==
    [i \in 1..Len(krate) |->
       IF flips[i]
       THEN [krate[i] EXCEPT !.features =
               [j \in 1..Len(@) |-> @[Len(@) + 1 - j]]]
       ELSE krate[i]]

\* PartialEq of IndexKrate: two features maps are equal when they hold the
\* same keys, whatever their iteration order
krate_eq(a, b) ==
    /\ Len(a) = Len(b)
    /\ \A i \in 1..Len(a) :
          /\ a[i].name = b[i].name
          /\ a[i].vers = b[i].vers
          /\ {a[i].features[j] : j \in 1..Len(a[i].features)}
               = {b[i].features[j] : j \in 1..Len(b[i].features)}

\* IndexKrate::write_cache_entry(krate, revision) into a Vec
CodecWrite(krate, revision) ==
    /\ last' = [op |-> "write_cache_entry", name |-> <<>>, res |-> Ok(None),
                krate |-> krate, revision |-> revision,
                buffer |-> write_cache_entry(krate, revision), from |-> None]
    /\ UNCHANGED <<cache, gitVars, lockVars, procVars>>

\* ValidCacheEntry::read(buffer), then to_krate(None) of the entry
CodecRead(buffer, flips) ==
    LET valid == ValidCacheEntry_read(buffer)
        krate == to_krate(valid.val, None)
    IN  /\ last' = [op |-> "read", name |-> <<>>, res |-> valid, buffer |-> buffer,
                    krate |-> IF ~valid.ok THEN valid
                              ELSE IF ~krate.ok THEN krate
                              ELSE Ok(Some(rehash(krate.val.val, flips))),
                    from |-> IF last.op = "write_cache_entry" /\ last.buffer = buffer
                             THEN Some([krate |-> last.krate, revision |-> last.revision])
                             ELSE None]
        /\ UNCHANGED <<cache, gitVars, lockVars, procVars>>

\* the entry that was just read is written again, as the test
\* serializes_current_cargo_cache does: the krate it gave, under its revision;
\* `from` is the entry read when write_cache_entry had written it
CodecRewrite ==
    /\ last.op = "read"
    /\ last.krate.ok
    /\ last' = [op |-> "write_cache_entry", name |-> <<>>, res |-> Ok(None),
                krate |-> last.krate.val.val, revision |-> last.res.val.revision,
                buffer |-> write_cache_entry(last.krate.val.val, last.res.val.revision),
                from |-> IF last.from.some THEN Some(last.res.val) ELSE None]
    /\ UNCHANGED <<cache, gitVars, lockVars, procVars>>

\* ValidCacheEntry { revision, version_entries }.to_krate(None): the fields of
\* a ValidCacheEntry are public
CodecToKrate(valid) ==
    /\ last' = [op |-> "to_krate", name |-> <<>>, res |-> Ok(None), valid |-> valid,
                krate |-> to_krate(valid, None)]
    /\ UNCHANGED <<cache, gitVars, lockVars, procVars>>

\* IndexKrate::from_slice(bytes)
CodecFromSlice(bytes) ==
    /\ last' = [op |-> "from_slice", name |-> <<>>, res |-> Ok(None), bytes |-> bytes,
                krate |-> from_slice(bytes)]
    /\ UNCHANGED <<cache, gitVars, lockVars, procVars>>

\* the krates written: of no version, of one and of two versions, of one
\* version with one feature ("f") and with two ("f", "g")
CodecKrates ==
    {<<>>, Krate(<<97>>, 1), Krate(<<97>>, 2),
     <<[name |-> <<97>>, vers |-> 1, features |-> <<102>>]>>,
     <<[name |-> <<97>>, vers |-> 1, features |-> <<102, 103>>]>>}

\* the revisions written: "", "01", "etag: x" and "x" NUL "y"
CodecRevisions ==
    {<<>>, <<48, 49>>, <<101, 116, 97, 103, 58, 32, 120>>, <<120, NUL, 121>>}

\* the buffers read: every prefix of two entries (of revision "x" and of a
\* revision that is no UTF-8), the first byte as it is and replaced by a lower
\* and by a higher cache version, the index version as it is and replaced by
\* 1, by 3, by 2^8 + 2 and by 2^24
Buffers ==
    LET \* two entries of 15 bytes
        entries == {write_cache_entry(Krate(<<97>>, 1), rev) : rev \in {<<120>>, <<200>>}}
        prefixes == {SubSeq(e, 1, n) : e \in entries, n \in 0..15}
        versioned(b, v) == IF b = <<>> THEN b ELSE <<v>> \o Tail(b)
        indexed(b, iv) == IF Len(b) < 5 THEN b
                          ELSE <<b[1]>> \o iv \o SubSeq(b, 6, Len(b))
    IN  {indexed(versioned(b, v), iv) :
            b \in prefixes, v \in {2, 3, 4},
            iv \in {INDEX_V_MAX_BYTES, <<1, 0, 0, 0>>, <<3, 0, 0, 0>>,
                    <<2, 1, 0, 0>>, <<0, 0, 0, 1>>}}

InitCodec ==
    /\ cache = [p \in Paths |-> NoFile]
    /\ last = [op |-> "open", name |-> <<>>, res |-> Ok(None)]
    /\ GitIdle
    /\ LockIdle

NextCodec ==
    \/ \E krate \in CodecKrates : \E revision \in CodecRevisions :
          CodecWrite(krate, revision)
    \/ \E buffer \in Buffers \cup (IF last.op = "write_cache_entry" THEN {last.buffer}
                                    ELSE {}) :
          \E flips \in [1..2 -> BOOLEAN] : CodecRead(buffer, flips)
    \/ CodecRewrite
    \* the entries of a krate as write_cache_entry lays them out, whole or
    \* short of their last three bytes
    \/ \E krate \in CodecKrates : \E revision \in CodecRevisions : \E cut \in {0, 3} :
          LET buffer == write_cache_entry(krate, revision)
          IN  CodecToKrate([revision |-> revision,
                            version_entries |->
                                SubSeq(buffer, Len(revision) + 7, Len(buffer) - cut)])
    \* the index file of a krate, newlines after it
    \/ \E krate \in CodecKrates : \E newlines \in {<<>>, <<NL>>, <<NL, NL>>} :
          CodecFromSlice(write_json_lines(krate) \o newlines)

SpecCodec == InitCodec /\ [][NextCodec]_vars

----------------------------------------------------------------------------
(* Processes that work on one index directory, each with an engine of its
   own: RemoteGitIndex::with_options, fetch_with_options, krate and the
   local view's cached_krate, in the steps other processes can see *)

\* with_options enters the closure open_or_clone_repo: the lock file
\* <path>.tame-index is acquired
OpenBegin(p) ==
    /\ pc[p].at = "none"
    /\ marker = 0
    /\ marker' = p
    /\ pc' = [pc EXCEPT ![p].at = "open"]
    /\ last' = [op |-> "acquire", name |-> <<>>, res |-> Ok(None), proc |-> p]
    /\ UNCHANGED <<gitVars, cache, lockVars>>

\* the lock file stays held by another process for the ten minutes
\* acquire_to_hold_resource retries: with_options returns the lock's error
OpenLockFails(p) ==
    /\ pc[p].at = "none"
    /\ marker \notin {0, p}
    /\ last' = [op |-> "with_options", name |-> <<>>, res |-> Err("Lock"), proc |-> p]
    /\ UNCHANGED <<gitVars, cache, lockVars, procVars>>

\* the rest of with_options: the repository at the path is opened, or the
\* index is cloned; the closure returns, which drops the lock; set_head
OpenEnd(p, outcome) ==
    LET res == open_or_clone_repo(IF localHead = 0 THEN "none" ELSE "at_path",
                                  IF localHead = 0 THEN "none" ELSE "same", outcome)
    IN  /\ pc[p].at = "open"
        /\ marker' = 0
        /\ localHead' = IF res.ok /\ res.val = "cloned" THEN Len(remote) ELSE localHead
        /\ headKind' = IF res.ok /\ res.val = "cloned" THEN HeadKind("Symbolic", "Peeled") ELSE headKind
        /\ head' = [head EXCEPT ![p] = IF res.ok THEN set_head' ELSE @]
        /\ pc' = [pc EXCEPT ![p].at = IF res.ok THEN "idle" ELSE "none"]
        /\ last' = [op |-> "with_options", name |-> <<>>, res |-> res, proc |-> p]
        /\ UNCHANGED <<remote, cache, writtenBy, lockVars>>

\* fetch_with_options up to the end of receive: no lock is acquired
FetchBegin(p) ==
    /\ pc[p].at = "idle"
    /\ pc' = [pc EXCEPT ![p].at = "fetch"]
    /\ last' = [op |-> "receive", name |-> <<>>, res |-> Ok(None), proc |-> p]
    /\ UNCHANGED <<gitVars, cache, lockVars, marker>>

\* the rest of fetch_with_options: the reference edit, the sanity check and
\* set_head, or the error the transfer ended with
FetchEnd(p, outcome) ==
    /\ pc[p].at = "fetch"
    /\ pc' = [pc EXCEPT ![p].at = "idle"]
    /\ IF outcome = "ok"
       THEN /\ localHead' = Len(remote)
            /\ headKind' = edit_reference(head_edit)
            /\ head' = [head EXCEPT ![p] = set_head']
            /\ last' = [op |-> "fetch", name |-> <<>>, res |-> Ok(None), proc |-> p]
       ELSE /\ last' = [op |-> "fetch", name |-> <<>>, res |-> Err("Fetch"), proc |-> p]
            /\ UNCHANGED <<localHead, headKind, head>>
    /\ UNCHANGED <<remote, cache, writtenBy, lockVars, marker>>

\* RemoteGitIndex::krate(name, true) up to File::create in write_to_cache:
\* on a miss the blob of the head tree is parsed and the cache file is
\* created, which truncates it.  (Every entry of this directory has a head
\* commit id for its revision, so the lookup is the one of the head commit.)
WriteBegin(p, name, create) ==
    LET cached == IndexCache_cached_krate(cache, name, head[p])
        blob == read_blob(relative_path(name, SEP))
        krate == from_slice(blob.val.val.data)
        ret == IF cached.ok /\ cached.val.some THEN cached
               ELSE IF ~blob.ok THEN blob
               ELSE IF ~blob.val.some THEN Ok(None)
               ELSE IF ~krate.ok THEN krate
               ELSE Ok(Some(krate.val))
        writes == ~(cached.ok /\ cached.val.some) /\ ret.ok /\ ret.val.some
                    /\ head[p].some /\ create = "ok"
    IN  /\ pc[p].at = "idle"
        /\ cache' = IF writes THEN [cache EXCEPT ![relative_path(name, SEP)] = File(<<>>)]
                    ELSE cache
        /\ pc' = IF writes THEN [pc EXCEPT ![p] = [at |-> "write", krate |-> ret.val.val]]
                 ELSE pc
        /\ last' = [op |-> IF writes THEN "create" ELSE "krate", name |-> name,
                    res |-> ret, proc |-> p]
        /\ UNCHANGED <<gitVars, lockVars, marker>>

\* the rest of write_to_cache and of krate: the entry is written to the file,
\* or the file is removed when the write fails; the krate is returned
WriteEnd(p, io) ==
    /\ pc[p].at = "write"
    /\ cache' = IndexCache_write_to_cache(cache, pc[p].krate, head[p].val, io)
    /\ writtenBy' = [writtenBy EXCEPT ![relative_path(krate_name(pc[p].krate), SEP)] =
                       IF io = "ok" THEN "krate" ELSE "none"]
    /\ pc' = [pc EXCEPT ![p] = [at |-> "idle", krate |-> <<>>]]
    /\ last' = [op |-> "krate", name |-> krate_name(pc[p].krate),
                res |-> Ok(Some(pc[p].krate)), proc |-> p]
    /\ UNCHANGED <<remote, localHead, headKind, head, lockVars, marker>>

\* GitIndex::cached_krate(name) of the process's engine; `contents` is what
\* read_cache_file found
ReadCache(p, name) ==
    /\ pc[p].at = "idle"
    /\ last' = [op |-> "local_cached_krate", name |-> name,
                res |-> IndexCache_cached_krate(cache, name, head[p]), proc |-> p,
                contents |-> read_cache_file(cache, name).val]
    /\ UNCHANGED <<gitVars, cache, lockVars, procVars>>

\* the remote has two commits; there is no clone yet, or one made at the
\* first commit; no process has an engine
InitProcs ==
    /\ remote = <<EmptyTree, FullTree>>
    /\ localHead \in {0, 1}
    /\ headKind = (IF localHead = 0 THEN HeadKind("Unborn", "None") ELSE HeadKind("Symbolic", "Peeled"))
    /\ head = [p \in Procs |-> None]
    /\ cache = [p \in Paths |-> NoFile]
    /\ writtenBy = [p \in Paths |-> "none"]
    /\ last = [op |-> "open", name |-> <<>>, res |-> Ok(None)]
    /\ fsKind = "rw"
    /\ osLock = [p \in Procs |-> "none"]
    /\ fileLock = [p \in Procs |-> "none"]
    /\ waiting = [p \in Procs |-> [state |-> "no", millis |-> [secs |-> 0, millis |-> 0]]]
    /\ pc = [p \in Procs |-> [at |-> "none", krate |-> <<>>]]
    /\ marker = 0

\* the processes 1..NumEngines work on the directory; they look up crate a
NextProcs ==
    \/ \E p \in 1..NumEngines : OpenBegin(p)
    \/ \E p \in 1..NumEngines : OpenLockFails(p)
    \/ \E p \in 1..NumEngines : \E outcome \in {"ok", "clone_fails"} : OpenEnd(p, outcome)
    \/ \E p \in 1..NumEngines : FetchBegin(p)
    \/ \E p \in 1..NumEngines : \E outcome \in {"ok", "transfer_fails"} :
          FetchEnd(p, outcome)
    \/ \E p \in 1..NumEngines : \E create \in {"ok", "create_fails"} :
          WriteBegin(p, <<97>>, create)
    \/ \E p \in 1..NumEngines : \E io \in {"ok", "write_fails"} : WriteEnd(p, io)
    \/ \E p \in 1..NumEngines : ReadCache(p, <<97>>)

SpecProcs == InitProcs /\ [][NextProcs]_vars

----------------------------------------------------------------------------
(* Properties of the file lock *)

\* C4: file-lock compatibility.  In every reachable state at most one process
\* owns a FileLock in state Exclusive, and no process owns one in state Shared
\* while another owns one in state Exclusive.
C4_LockCompatibility ==
    \A p \in Procs : \A q \in Procs \ {p} :
        fileLock[p] = "Exclusive" => fileLock[q] \notin {"Exclusive", "Shared"}

\* several processes hold the lock in state Shared at the same time, taken on
\* a filesystem where an exclusive lock can be taken as well
C4_Witness ==
    /\ fsKind = "rw"
    /\ Cardinality({p \in Procs : fileLock[p] = "Shared" /\ osLock[p] = "Shared"}) >= 2

\* C5: two processes ask for an exclusive lock of the same path (a writable
\* filesystem that supports locks).  The try_lock that finds no lock held
\* succeeds at once with state Exclusive; the try_lock that finds the other
\* process holding the exclusive lock returns Contested at once: the process
\* is not blocked and holds no lock.
C5_ExclusiveContention ==
    [][\A q \in Procs :
         (last'.op = "try_lock" /\ last'.proc = q /\ last'.exclusive /\ fsKind = "rw")
         => /\ (\A p \in Procs : osLock[p] = "none")
                 => /\ last'.res = Ok("Exclusive")
                    /\ osLock'[q] = "Exclusive"
                    /\ fileLock'[q] = "Exclusive"
            /\ (\E p \in Procs \ {q} : fileLock[p] = "Exclusive")
                 => /\ last'.res = Err("Contested")
                    /\ osLock'[q] = "none"
                    /\ fileLock'[q] = "none"
                    /\ waiting'[q].state = "no"
            /\ Cardinality({p \in Procs : fileLock'[p] = "Exclusive"}) <= 1]_vars

\* an exclusive try_lock has just returned Contested while another process
\* holds the exclusive lock it took with try_lock as well
C5_Witness ==
    /\ last.op = "try_lock" /\ last.exclusive
    /\ last.res = Err("Contested")
    /\ fsKind = "rw"
    /\ \E p \in Procs \ {last.proc} : fileLock[p] = "Exclusive"
    /\ fileLock[last.proc] = "none" /\ osLock[last.proc] = "none"

----------------------------------------------------------------------------
(* Properties of the git engine *)

\* the value of one hex digit, -1 for any other byte
hex_digit(c) ==
    IF c \in 48..57 THEN c - 48 ELSE IF c \in 97..102 THEN c - 87 ELSE -1

\* the bytes a lower-case hex string stands for; None for any other string
decode_hex(s) ==
    IF Len(s) % 2 = 0 /\ \A i \in 1..Len(s) : hex_digit(s[i]) >= 0
    THEN Some([i \in 1..(Len(s) \div 2) |->
                 16 * hex_digit(s[2 * i - 1]) + hex_digit(s[2 * i])])
    ELSE None

PathOf(name) == relative_path(name, SEP)

\* the valid cache entry at the path of `name`, if there is one
EntryOf(name) == ValidCacheEntry_read(cache[PathOf(name)].bytes)
HasEntry(name) == cache[PathOf(name)].exists /\ EntryOf(name).ok

\* the entry of the local HEAD's tree at the path of `name`
HeadTreeEntry(name) ==
    IF localHead = 0 THEN NoEntry ELSE remote[localHead][PathOf(name)]

\* C1: granular git cache validity.  For two distinct crates A and B whose
\* cache entries were written by krate(_, true) and are served, a successful
\* fetch of a commit that changes only A's file leaves cached_krate(B)
\* returning B's cached krate and makes cached_krate(A) return no entry.
C1_GranularValidity ==
    [][\A A \in CrateNames : \A B \in CrateNames \ {A} :
         ( /\ writtenBy[PathOf(A)] = "krate"
           /\ writtenBy[PathOf(B)] = "krate"
           /\ RemoteGitIndex_cached_krate(A).ok
           /\ RemoteGitIndex_cached_krate(A).val.some
           /\ RemoteGitIndex_cached_krate(B).ok
           /\ RemoteGitIndex_cached_krate(B).val.some
           /\ localHead # 0
           /\ last'.op = "fetch" /\ last'.res.ok
           /\ localHead' # localHead
           /\ remote[localHead'][PathOf(A)] # remote[localHead][PathOf(A)]
           /\ remote[localHead'][PathOf(B)] = remote[localHead][PathOf(B)] )
         => /\ RemoteGitIndex_cached_krate(B)' = RemoteGitIndex_cached_krate(B)
            /\ RemoteGitIndex_cached_krate(A)' = Ok(None)]_vars

\* what C2 says cached_krate returns for a valid entry: the entry's krate when
\* its revision names the head commit or the blob at the crate's path of the
\* head tree, no entry otherwise
C2_Accepted(name) ==
    \/ /\ localHead # 0
       /\ decode_hex(EntryOf(name).val.revision) = Some(CommitOid(localHead))
    \/ /\ HeadTreeEntry(name).kind = "blob"
       /\ decode_hex(EntryOf(name).val.revision)
            = Some(BlobOid(HeadTreeEntry(name).data))

C2_Expected(name) ==
    IF C2_Accepted(name) THEN to_krate(EntryOf(name).val, None) ELSE Ok(None)

C3_FetchPostcondition ==
    last.op = "fetch" =>
        /\ last.res.ok =>
              /\ localHead = Len(remote)
              /\ head.some
              /\ decode_hex(head.val) = Some(CommitOid(Len(remote)))
        /\ ( /\ last.res \notin {Ok(None), Err("Fetch"), Err("UnableToFindRemoteHead")}
             \/ /\ localHead # Len(remote)
                /\ last.res \notin {Err("Fetch"), Err("UnableToFindRemoteHead")} )
           => /\ last.res = Err("UnableToUpdateHead")
              /\ localHead # Len(remote)

\* a fetch returned Ok and moved HEAD to a commit made after the clone
C3_Witness ==
    /\ last.op = "fetch" /\ last.res.ok
    /\ localHead > 1
    /\ head = Some(encode_hex(CommitOid(localHead)))

----------------------------------------------------------------------------
(* Properties of the sparse engine *)

\* the response of the last parse_remote_response and the krate it returned
C_Response == last.response
C_Krate == last.res.val.val

\* a 200 response was parsed, and the cache entry was written without failure
C_Written200 ==
    /\ last.op = "parse_remote_response"
    /\ last.response.status = 200
    /\ last.write
    /\ last.io = "ok"
    /\ last.res.ok

\* the conditional headers of the request make_remote_request builds now
C_IfNoneMatch(name) == make_remote_request(name).val.headers["if-none-match"]
C_IfModifiedSince(name) == make_remote_request(name).val.headers["if-modified-since"]

\* C6: 304 idempotence.  For a crate with a valid cache entry,
\* parse_remote_response of a 304 response (any headers, either value of
\* write_cache) returns the cached krate and leaves the cache directory as it
\* was, so that a later cached_krate returns the same.
C6_NotModifiedIdempotent ==
    [][( /\ last'.op = "parse_remote_response"
         /\ last'.response.status = 304
         /\ HasEntry(last'.name)
         /\ to_krate(EntryOf(last'.name).val, None).ok )
       => /\ last'.res = to_krate(EntryOf(last'.name).val, None)
          /\ last'.res.val.some
          /\ cache' = cache]_vars

\* a 304 response with an ETag header was parsed with write_cache set, and the
\* cached krate came back
C6_Witness ==
    /\ last.op = "parse_remote_response"
    /\ last.response.status = 304
    /\ last.response.etag.some
    /\ last.write
    /\ HasEntry(last.name)
    /\ last.res = to_krate(EntryOf(last.name).val, None)
    /\ last.res.ok /\ last.res.val.some

\* the key and the value of a revision: the text before the first ':' and the
\* text after it without the white space around it
C7_Colon(revision) == memchr(58, revision)
C7_Key(revision) == SubSeq(revision, 1, C7_Colon(revision) - 1)
C7_Value(revision) == trim(SubSeq(revision, C7_Colon(revision) + 1, Len(revision)))

\* the headers C7 expects for a revision whose key selects one
C7_Selects(revision, header) ==
    /\ C7_Colon(revision) # 0
    /\ to_ascii_lowercase(C7_Key(revision)) = header

\* C7 as claimed: the key before the first ':' of the cached revision selects
\* the conditional header, which carries the revision's value: ETag gives
\* If-None-Match, Last-Modified gives If-Modified-Since, any other key or no
\* ':' gives neither; never both.
C7_Original ==
    (last.op = "make_remote_request" /\ HasEntry(last.name)) =>
        LET revision == EntryOf(last.name).val.revision
            headers == last.res.val.headers
        IN  /\ C7_Selects(revision, ETAG)
                 => /\ headers["if-none-match"] = Some(C7_Value(revision))
                    /\ headers["if-modified-since"] = None
            /\ C7_Selects(revision, LAST_MODIFIED)
                 => /\ headers["if-modified-since"] = Some(C7_Value(revision))
                    /\ headers["if-none-match"] = None
            /\ ~(C7_Selects(revision, ETAG) \/ C7_Selects(revision, LAST_MODIFIED))
                 => /\ headers["if-none-match"] = None
                    /\ headers["if-modified-since"] = None

\* C7 as amended: the same when the value is a valid header value (no control
\* byte but the tab); a revision whose value is no valid header value gives
\* neither header.  Keys compare ignoring ASCII case, and the header carries
\* the value without the white space around it.
C7_ConditionalHeader ==
    (last.op = "make_remote_request" /\ HasEntry(last.name)) =>
        LET revision == EntryOf(last.name).val.revision
            headers == last.res.val.headers
            usable == is_valid_header_value(C7_Value(revision))
        IN  /\ (C7_Selects(revision, ETAG) /\ usable)
                 => /\ headers["if-none-match"] = Some(C7_Value(revision))
                    /\ headers["if-modified-since"] = None
            /\ (C7_Selects(revision, LAST_MODIFIED) /\ usable)
                 => /\ headers["if-modified-since"] = Some(C7_Value(revision))
                    /\ headers["if-none-match"] = None
            /\ ~(usable /\ (C7_Selects(revision, ETAG) \/ C7_Selects(revision, LAST_MODIFIED)))
                 => /\ headers["if-none-match"] = None
                    /\ headers["if-modified-since"] = None
            /\ ~(headers["if-none-match"].some /\ headers["if-modified-since"].some)

\* a request was built from an entry of revision "ETag: x" and carries
\* If-None-Match: x
C7_Witness ==
    /\ last.op = "make_remote_request"
    /\ HasEntry(last.name)
    /\ C7_Key(EntryOf(last.name).val.revision) = <<69, 84, 97, 103>>
    /\ last.res.val.headers["if-none-match"] = Some(<<120>>)
    /\ last.res.val.headers["if-modified-since"] = None

C9_StatusMapping ==
    (last.op = "parse_remote_response" /\ last.response.status \notin {200, 304}) =>
        LET code == last.response.status
        IN  /\ code = 401
                 => last.res = [ok |-> FALSE, err |-> "StatusCode", code |-> 401,
                                msg |-> "the request was not authorized"]
            /\ code \in {404, 410, 451} => last.res = Ok(None)
            /\ code \notin {401, 404, 410, 451}
                 => last.res = [ok |-> FALSE, err |-> "StatusCode", code |-> code,
                                msg |-> "the status code is invalid for this protocol"]

\* a response of status 403 was parsed and refused
C9_Witness ==
    /\ last.op = "parse_remote_response"
    /\ last.response.status = 403
    /\ ~last.res.ok
    /\ last.res.code = 403

\* the revision of the entry the last parse_remote_response wrote
C10_Revision == EntryOf(krate_name(C_Krate)).val.revision

\* C10 as claimed: the revision written is "ETag: <value>" when the response
\* has an ETag header, else "Last-Modified: <value>" when it has a
\* Last-Modified header, else "Unknown".
C10_Original ==
    C_Written200 =>
        /\ HasEntry(krate_name(C_Krate))
        /\ C10_Revision =
             IF C_Response.etag.some
             THEN <<69, 84, 97, 103, 58, 32>> \o C_Response.etag.val
             ELSE IF C_Response.last_modified.some
             THEN <<76, 97, 115, 116, 45, 77, 111, 100, 105, 102, 105, 101, 100, 58, 32>>
                    \o C_Response.last_modified.val
             ELSE Unknown

\* C10 as amended: the revision written is "etag: <value>" (the header name
\* in lower case) when the response has an ETag header of visible ASCII, else
\* "last-modified: <value>" when it has no ETag header and a Last-Modified
\* header of visible ASCII, else "Unknown"; an ETag header that is no visible
\* ASCII gives "Unknown" whether or not there is a Last-Modified header.
C10_RevisionWritten ==
    C_Written200 =>
        /\ HasEntry(krate_name(C_Krate))
        /\ C10_Revision =
             IF C_Response.etag.some
             THEN IF \A i \in 1..Len(C_Response.etag.val) :
                        C_Response.etag.val[i] \in (32..126) \cup {9}
                  THEN <<101, 116, 97, 103, 58, 32>> \o C_Response.etag.val
                  ELSE Unknown
             ELSE IF C_Response.last_modified.some
             THEN IF \A i \in 1..Len(C_Response.last_modified.val) :
                        C_Response.last_modified.val[i] \in (32..126) \cup {9}
                  THEN <<108, 97, 115, 116, 45, 109, 111, 100, 105, 102, 105, 101, 100,
                         58, 32>> \o C_Response.last_modified.val
                  ELSE Unknown
             ELSE Unknown

\* a 200 with both an ETag and a Last-Modified header was written under the
\* revision "etag: x"
C10_Witness ==
    /\ C_Written200
    /\ C_Response.etag = Some(<<120>>)
    /\ C_Response.last_modified.some
    /\ C10_Revision = <<101, 116, 97, 103, 58, 32, 120>>

----------------------------------------------------------------------------
(* Properties of the cache codec *)

\* C11: cache codec round trip.  Reading the bytes write_cache_entry(k, rev)
\* produced for a krate k of at least one version gives the revision rev and
\* a krate equal to k; and writing again the krate and the revision that were
\* read from a written entry gives an entry of the same revision and the same
\* version-entry bytes.
C11_CodecRoundTrip ==
    /\ (last.op = "read" /\ last.from.some /\ Len(last.from.val.krate) >= 1)
         => /\ last.res.ok
            /\ last.res.val.revision = last.from.val.revision
            /\ last.krate.ok
            /\ last.krate.val.some
            /\ krate_eq(last.krate.val.val, last.from.val.krate)
    /\ (last.op = "write_cache_entry" /\ last.from.some)
         => /\ ValidCacheEntry_read(last.buffer).ok
            /\ ValidCacheEntry_read(last.buffer).val.revision = last.from.val.revision
            /\ ValidCacheEntry_read(last.buffer).val.version_entries
                 = last.from.val.version_entries

\* C12: read rejects every buffer whose first byte is not 3: a lower byte
\* gives OutdatedCacheVersion, a higher one UnknownCacheVersion, whatever
\* follows it (an index version that would be refused, or nothing at all).
C12_CacheVersionRejected ==
    (last.op = "read" /\ last.buffer # <<>>) =>
        /\ last.buffer[1] < 3 => last.res = Err("OutdatedCacheVersion")
        /\ last.buffer[1] > 3 => last.res = Err("UnknownCacheVersion")
        /\ last.buffer[1] = 3
             => last.res \notin {Err("OutdatedCacheVersion"), Err("UnknownCacheVersion")}

\* a buffer of cache version 4 whose index version (1) would be refused was
\* read: the answer is UnknownCacheVersion
C12_Witness ==
    /\ last.op = "read"
    /\ Len(last.buffer) >= 5
    /\ last.buffer[1] = 4
    /\ SubSeq(last.buffer, 2, 5) = <<1, 0, 0, 0>>
    /\ last.res = Err("UnknownCacheVersion")

C14_Original ==
    last.op = "read" =>
        LET b == last.buffer
            rest == SubSeq(b, 6, Len(b))
            nuls == {i \in 1..Len(rest) : rest[i] = NUL}
            revision == SubSeq(rest, 1, IF nuls = {} THEN Len(rest)
                                         ELSE memchr(NUL, rest) - 1)
            passes == b = <<>> \/ (b[1] = 3 /\ (Len(b) < 5 \/ last.res
                                                   # Err("UnknownIndexVersion")))
        IN  /\ last.res # Err("panic")
            /\ passes =>
                 IF Len(b) <= 5 THEN last.res = Err("InvalidCacheEntry")
                 ELSE IF \E i \in 1..Len(revision) : revision[i] >= 128
                      THEN last.res = Err("OutdatedRevision")
                 ELSE Cardinality(nuls) < 3 => last.res = Err("InvalidCacheEntry")

\* C14 as amended: read never panics.  Of the buffers that pass the two
\* version checks, one of five bytes or fewer gives InvalidCacheEntry; else
\* one whose revision (the bytes up to the first NUL) is no UTF-8 gives
\* OutdatedRevision; else one that holds less than two NULs after the index
\* version, or nothing after the second, gives InvalidCacheEntry; every other
\* one is accepted with the bytes after the first NUL as its version
\* entries, be its JSON blob cut short or not ended by NUL.
C14_ReadTotal ==
    last.op = "read" =>
        LET b == last.buffer
            rest == SubSeq(b, 6, Len(b))
            nuls == {i \in 1..Len(rest) : rest[i] = NUL}
            first == CHOOSE i \in nuls : \A j \in nuls : i <= j
            second == CHOOSE i \in nuls \ {first} : \A j \in nuls \ {first} : i <= j
            revision == SubSeq(rest, 1, IF nuls = {} THEN Len(rest) ELSE first - 1)
            passes == b = <<>> \/ (b[1] = 3 /\ (Len(b) < 5 \/ last.res
                                                   # Err("UnknownIndexVersion")))
        IN  /\ last.res # Err("panic")
            /\ passes =>
                 IF Len(b) <= 5 THEN last.res = Err("InvalidCacheEntry")
                 ELSE IF \E i \in 1..Len(revision) : revision[i] >= 128
                      THEN last.res = Err("OutdatedRevision")
                 ELSE IF Cardinality(nuls) < 2 \/ second = Len(rest)
                      THEN last.res = Err("InvalidCacheEntry")
                 ELSE last.res = Ok([revision |-> revision,
                                     version_entries |->
                                         SubSeq(rest, first + 1, Len(rest))])

\* an entry cut in the middle of its JSON blob was read: read accepts it, and
\* to_krate fails on the blob
C14_Witness ==
    /\ last.op = "read"
    /\ last.buffer = <<3, 2, 0, 0, 0, 120, 0, 49, 0, 123, 97>>
    /\ last.res.ok
    /\ last.krate = Err("Json")

----------------------------------------------------------------------------
(* Properties of the git engine's cache entries and of its open protocol *)

\* C15: the entry krate(name, true) writes when it misses the cache carries
\* the hex id of the blob at the crate's path of the head tree as its
\* revision.
C15_BlobRevision ==
    (last.op = "krate" /\ last.wrote) =>
        /\ HasEntry(last.name)
        /\ EntryOf(last.name).val.revision
             = encode_hex(BlobOid(HeadTreeEntry(last.name).data))

C18_OpenProtocol ==
    (last.op = "with_options" /\ last.res.ok) =>
        (last.res.val = "opened") <=> (last.found # "none" /\ last.origin = "same")

----------------------------------------------------------------------------
(* Properties of processes that share one index directory *)

\* C19: a process that is inside with_options' discover-or-clone, or inside
\* fetch_with_options, holds the lock file <path>.tame-index, so no two
\* processes are inside open or fetch at once; a process that is in neither
\* does not hold it (the lock is released when the operation ends, whether it
\* succeeded or failed).
C19_CompanionLock ==
    /\ \A p \in Procs : pc[p].at \in {"open", "fetch"} => marker = p
    /\ \A p, q \in Procs :
          (pc[p].at \in {"open", "fetch"} /\ pc[q].at \in {"open", "fetch"}) => p = q
    /\ \A p \in Procs : marker = p => pc[p].at = "open"

\* C20: a process that is writing a cache file holds the FileLock in state
\* Exclusive and one that reads a cache file holds it in state Shared or
\* Exclusive, so what a read finds at a cache path is a whole entry: never
\* the empty file File::create leaves before the entry is written.
C20_LockMediated ==
    /\ \A p \in Procs : pc[p].at = "write" => fileLock[p] = "Exclusive"
    /\ last.op = "local_cached_krate"
         => /\ fileLock[last.proc] \in {"Shared", "Exclusive"}
            /\ last.contents.some
                 => /\ last.contents.val # <<>>
                    /\ ValidCacheEntry_read(last.contents.val).ok

----------------------------------------------------------------------------
(* Properties of LockOptions::lock and of the wait hook *)

\* C21: a lock call that finds the lock contended and whose wait hook answers
\* None has returned a failure: the process is not blocked and holds no lock,
\* whether it asked for a shared or for an exclusive lock.
C21_HookNoneGivesUp ==
    (last.op = "lock" /\ "calls" \in DOMAIN last
       /\ last.calls = <<"try_lock", "wait", "lock">> /\ last.wait = Some(None))
    => /\ ~last.res.ok /\ last.res.err # "Blocks"
       /\ waiting[last.proc].state = "no"
       /\ fileLock[last.proc] = "none" /\ osLock[last.proc] = "none"

\* a shared lock call whose hook answered None has failed while another
\* process holds the exclusive lock
C21_Witness ==
    /\ last.op = "lock" /\ "calls" \in DOMAIN last
    /\ last.calls = <<"try_lock", "wait", "lock">> /\ last.wait = Some(None)
    /\ ~last.exclusive
    /\ last.res = Err("Lock")
    /\ \E p \in Procs \ {last.proc} : fileLock[p] = "Exclusive"

C23_Original ==
    (fsKind \in {"nfs", "nfs_ro"} /\ last.op \in {"try_lock", "lock"})
    => /\ last.res = Err("Nfs")
       /\ last.calls = <<>>
       /\ \A p \in Procs : /\ osLock[p] = "none"
                           /\ fileLock[p] \in {"none", "Unlocked"}
                           /\ waiting[p].state = "no"

\* C23, amended: on NFS every lock call whose open of the lock file succeeds
\* returns Nfs, having made no call of the sys module nor of the wait hook;
\* the one whose open fails (an exclusive request without fallback on a
\* read-only mount) returns the error of the open; either way the process is
\* not blocked and no lock is held.
C23_NfsRefusal ==
    (fsKind \in {"nfs", "nfs_ro"} /\ last.op \in {"try_lock", "lock"})
    => /\ IF fsKind = "nfs_ro" /\ last.exclusive /\ ~last.shared_fallback
          THEN last.res = Err("Readonly")
          ELSE last.res = Err("Nfs")
       /\ last.calls = <<>>
       /\ \A p \in Procs : /\ osLock[p] = "none"
                           /\ fileLock[p] \in {"none", "Unlocked"}
                           /\ waiting[p].state = "no"

\* an exclusive lock call with a wait hook has returned Nfs
C23_Witness ==
    /\ fsKind = "nfs"
    /\ last.op = "lock" /\ last.exclusive /\ last.wait.val.some
    /\ last.res = Err("Nfs")

C25_DropReleases ==
    [][/\ last'.op = "drop"
          => /\ fileLock'[last'.proc] = "none"
             /\ \A q \in Procs \ {last'.proc} :
                   osLock'[q] = osLock[q] /\ fileLock'[q] = fileLock[q]
             /\ IF fileLock[last'.proc] = "Unlocked"
                THEN osLock'[last'.proc] = osLock[last'.proc]
                ELSE osLock'[last'.proc] = "none"
       /\ (/\ last.op = "drop" /\ last.state \in {"Exclusive", "Shared"}
           /\ last'.op = "try_lock" /\ last'.exclusive /\ last'.proc # last.proc
           /\ fsKind = "rw"
           /\ \A r \in Procs \ {last.proc, last'.proc} : osLock[r] = "none")
          => /\ last'.res = Ok("Exclusive")
             /\ fileLock'[last'.proc] = "Exclusive"]_vars

\* an Exclusive FileLock has just been dropped: no process holds a lock, and
\* a process that waits for the exclusive lock is still blocked
C25_Witness ==
    /\ last.op = "drop" /\ last.state = "Exclusive"
    /\ fsKind = "rw"
    /\ \A p \in Procs : osLock[p] = "none"
    /\ \E p \in Procs \ {last.proc} : waiting[p].state = "Exclusive"

----------------------------------------------------------------------------
(* Properties of the cache writes of both engines *)

\* C26: whether the cache entry is written, cannot be created or cannot be
\* written, parse_remote_response of a 200 response whose body parses, with
\* write_cache_entry set, returns the krate of the body, and krate(name, true)
\* on a cache miss returns the krate of the blob of the head tree: the failed
\* write never shows in what is returned.
C26_BestEffort ==
    /\ [](/\ (last.op = "parse_remote_response" /\ last.response.status = 200
                /\ last.write /\ from_slice(last.response.body).ok)
             => last.res = Ok(Some(from_slice(last.response.body).val))
          /\ (last.op = "krate" /\ last.write) => last.res # Err("IoPath"))
    /\ [][\A name \in CrateNames :
            (/\ last'.op = "krate" /\ last'.name = name /\ last'.write
             /\ ~(RemoteGitIndex_cached_krate(name).ok
                    /\ RemoteGitIndex_cached_krate(name).val.some)
             /\ read_blob(relative_path(name, SEP)).ok
             /\ read_blob(relative_path(name, SEP)).val.some)
            => IF from_slice(remote[localHead][relative_path(name, SEP)].data).ok
               THEN last'.res = Ok(Some(
                        from_slice(remote[localHead][relative_path(name, SEP)].data).val))
               ELSE ~last'.res.ok /\ last'.res.err # "IoPath"
          ]_vars

\* krate(name, true) has returned a krate although the cache file could not
\* be written
C26_Witness ==
    /\ last.op = "krate" /\ last.write /\ last.io = "write_fails"
    /\ last.res.ok /\ last.res.val.some
    /\ ~cache[relative_path(last.name, SEP)].exists

----------------------------------------------------------------------------
(* Properties of the requests of the sparse engine *)

\* C27: a request made with an etag override carries If-None-Match with that
\* etag and no If-Modified-Since, whether or not the crate has a cache entry
\* and whatever the revision of the entry.
C27_EtagOverride ==
    (last.op = "make_remote_request" /\ last.etag.some)
    => /\ last.res.ok
       /\ last.res.val.headers["if-none-match"] = Some(last.etag.val)
       /\ last.res.val.headers["if-modified-since"] = None

\* C28: every request is a GET of the crate's relative path with '/' under
\* the base url and carries cargo-protocol: version=1, Accept: text/plain and
\* Accept-Encoding: gzip; for a crate without a cache entry it carries neither
\* If-None-Match nor If-Modified-Since.
C28_StaticHeaders ==
    last.op = "make_remote_request"
    => /\ last.res.ok
       /\ last.res.val.method = "GET"
       /\ last.res.val.uri = relative_path(last.name, 47)
       /\ last.res.val.headers["cargo-protocol"] = Some("version=1")
       /\ last.res.val.headers["accept"] = Some("text/plain")
       /\ last.res.val.headers["accept-encoding"] = Some("gzip")
       /\ ~cache[relative_path(last.name, SEP)].exists
            => /\ last.res.val.headers["if-none-match"] = None
               /\ last.res.val.headers["if-modified-since"] = None

----------------------------------------------------------------------------
(* Properties of the batch calls of the sparse engine *)

\* what krate(name) returns when it runs by itself on the cache directory the
\* batch started on
C29_Alone(name) ==
    IF last.responses[name].status = 304
    THEN IndexCache_cached_krate(last.cache0, name, None)
    ELSE parse_remote_response(name, last.responses[name], FALSE, "ok").ret

\* C29 as it is stated: the map a batch over the names S returns has exactly
\* the keys S, and under each name the result krate(name) gives by itself for
\* that name's response, whatever the order in which the workers took the
\* names and finished, and whatever the other names' results are.
C29_Original ==
    last.op \in {"krates", "krates_returned"} =>
       /\ DOMAIN last.results \subseteq last.names
       /\ last.op = "krates_returned" => DOMAIN last.results = last.names
       /\ \A n \in DOMAIN last.results : last.results[n] = C29_Alone(n)

\* C29, amended: the same, for the batches in which no 200 response carries a
\* krate whose cache file is that of another name of S; the key set is
\* exactly S in every batch.
C29_BatchMap ==
    last.op \in {"krates", "krates_returned"} =>
       /\ DOMAIN last.results \subseteq last.names
       /\ last.op = "krates_returned" => DOMAIN last.results = last.names
       /\ (\A n \in last.names :
              LET response == last.responses[n]
                  krate == from_slice(response.body)
              IN  (response.status = 200 /\ krate.ok)
                    => \A m \in last.names \ {n} :
                         relative_path(krate_name(krate.val), SEP) # relative_path(m, SEP))
            => \A n \in DOMAIN last.results : last.results[n] = C29_Alone(n)

\* a batch over both names has returned: a failed with a status error, and b
\* was not modified and is served from the entry an earlier batch wrote
C29_Witness ==
    /\ last.op = "krates_returned"
    /\ last.names = CrateNames
    /\ last.responses[<<97>>].status = 500
    /\ ~last.results[<<97>>].ok
    /\ last.responses[<<98>>].status = 304
    /\ last.results[<<98>>].ok
    /\ last.results[<<98>>].val.some

----------------------------------------------------------------------------
(* The location resolver *)

\* C31: url_to_local_dir of "registry+" \o u \o ".git?a=1#f", u with a
\* scheme, succeeds with the directory name (and so the hash) that
\* url_to_local_dir gives u \o ".git", and, when the host is not github.com,
\* with the canonical url u \o ".git".
C31_RegistryCanonicalization ==
    LET registry == <<114, 101, 103, 105, 115, 116, 114, 121, 43>>       \* "registry+"
        tail == <<46, 103, 105, 116, 63, 97, 61, 49, 35, 102>>          \* ".git?a=1#f"
        url == last.url
        plain == SubSeq(url, 10, Len(url) - 6)
    IN  (/\ last.op = "url_to_local_dir"
         /\ Len(url) >= 19
         /\ SubSeq(url, 1, 9) = registry
         /\ SubSeq(url, Len(url) - 9, Len(url)) = tail
         /\ find(url, <<58, 47, 47>>) # 0)
          => /\ last.res.ok
             /\ url_to_local_dir(plain).ok
             /\ last.res.val.dir_name = url_to_local_dir(plain).val.dir_name
             /\ url_host(plain, find(plain, <<58, 47, 47>>) + 3)
                    # <<103, 105, 116, 104, 117, 98, 46, 99, 111, 109>>
                  => last.res.val.canonical = plain

\* C40: download_url terminates, so that no iteration of its loops leaves dl
\* as it was, and the string it returns holds no placeholder that the
\* template held.
C40_DownloadUrlTerminates ==
    LET placeholders ==
            {<<123, 99, 114, 97, 116, 101, 125>>,                                \* "{crate}"
             <<123, 118, 101, 114, 115, 105, 111, 110, 125>>,                    \* "{version}"
             <<123, 112, 114, 101, 102, 105, 120, 125>>,                         \* "{prefix}"
             <<123, 108, 111, 119, 101, 114, 112, 114, 101, 102, 105, 120, 125>>} \* "{lowerprefix}"
    IN  last.op = "download_url" =>
          /\ last.iterations > 0 => last.dl # last.before
          /\ last.at = "returned" =>
               \A p \in placeholders : find(last.template, p) # 0 => find(last.dl, p) = 0

----------------------------------------------------------------------------
(* Krates of no version *)

\* C32: an IndexKrate that to_krate or from_slice gives has a version, and
\* an input of no version gives NoCrateVersions: an entry of no (semver,
\* json) pair to to_krate, an index file that is empty or all newlines to
\* from_slice.
C32_AtLeastOneVersion ==
    /\ (last.op \in {"read", "to_krate"} /\ last.krate.ok /\ last.krate.val.some)
         => last.krate.val.val # <<>>
    /\ (last.op = "from_slice" /\ last.krate.ok) => last.krate.val # <<>>
    /\ (last.op = "to_krate" /\ split(last.valid.version_entries, NUL) = <<>>)
         => last.krate = Err("NoCrateVersions")
    /\ (last.op = "from_slice" /\ trim_newlines(last.bytes) = <<>>)
         => last.krate = Err("NoCrateVersions")

----------------------------------------------------------------------------
(* The local HEAD across fetches *)

----------------------------------------------------------------------------
(* The request and the cache *)

\* C34 as stated: make_remote_request returns the request with its three
\* static headers whatever the cache holds, and with no conditional header
\* when the crate's cache file is missing, unreadable, of another cache or
\* index version, truncated anywhere, or of a revision whose value is no
\* header value
C34_CacheNeverFails ==
    last.op = "make_remote_request" =>
        LET f == cache[relative_path(last.name, SEP)]
            valid == ValidCacheEntry_read(f.bytes)
            kv == split_once(valid.val.revision, 58)
            truncated ==
                \E rev \in SparseRevisions :
                   LET e == write_cache_entry(Krate(last.name, 1), rev)
                   IN  \E n \in 0..(Len(e) - 1) : f.bytes = SubSeq(e, 1, n)
            failed ==
                \/ ~f.exists
                \/ ~f.readable
                \/ ~valid.ok /\ valid.err \in {"OutdatedCacheVersion", "UnknownCacheVersion",
                                                "UnknownIndexVersion"}
                \/ truncated
                \/ valid.ok /\ kv.some /\ ~is_valid_header_value(trim(kv.val.value))
        IN  /\ last.res.ok
            /\ last.res.val.headers["cargo-protocol"] = Some("version=1")
            /\ last.res.val.headers["accept"] = Some("text/plain")
            /\ last.res.val.headers["accept-encoding"] = Some("gzip,identity")
            /\ failed => /\ last.res.val.headers["if-none-match"] = None
                         /\ last.res.val.headers["if-modified-since"] = None

\* C34 amended: the same, of a file truncated so that ValidCacheEntry::read
\* fails; a file cut after its revision and the start of its first version's
\* blob is read as an entry, and its revision is sent
C34_CacheFailuresIgnored ==
    last.op = "make_remote_request" =>
        LET f == cache[relative_path(last.name, SEP)]
            valid == ValidCacheEntry_read(f.bytes)
            kv == split_once(valid.val.revision, 58)
            failed ==
                \/ ~f.exists
                \/ ~f.readable
                \/ ~valid.ok
                \/ valid.ok /\ kv.some /\ ~is_valid_header_value(trim(kv.val.value))
        IN  /\ last.res.ok
            /\ last.res.val.headers["cargo-protocol"] = Some("version=1")
            /\ last.res.val.headers["accept"] = Some("text/plain")
            /\ last.res.val.headers["accept-encoding"] = Some("gzip,identity")
            /\ failed => /\ last.res.val.headers["if-none-match"] = None
                         /\ last.res.val.headers["if-modified-since"] = None

\* a request made of a crate whose cache file cannot be read
C34_Witness ==
    /\ last.op = "make_remote_request"
    /\ cache[relative_path(last.name, SEP)] = Unreadable
    /\ last.res.ok
    /\ last.res.val.headers["if-none-match"] = None

----------------------------------------------------------------------------
(* The metadata the git engine serves *)

\* C35: whatever commits, fetches (failed ones too) and krate calls came
\* before, with cache entries written by krate only, a krate call that
\* succeeds returns the content of the crate's blob in the tree of the local
\* HEAD, and no entry when the tree holds no such blob
C35_NoStaleMetadata ==
    (last.op = "krate" /\ last.res.ok /\ repo_head_commit.ok) =>
        LET blob == read_blob(relative_path(last.name, SEP))
            krate == from_slice(blob.val.val.data)
        IN  IF ~blob.val.some THEN last.res = Ok(None)
            ELSE krate.ok => last.res = Ok(Some(krate.val))

\* C36: in every state after open and any fetches the engine's head_sha1 is
\* the hex id of the local HEAD commit, or absent when HEAD has no commit,
\* and a fetch that returns an error leaves the local HEAD and head_sha1 as
\* they were
C36_HeadSha1 ==
    /\ [](head = set_head)
    /\ [][(last'.op = "fetch" /\ ~last'.res.ok) => UNCHANGED <<localHead, head>>]_vars

----------------------------------------------------------------------------
(* What parse_remote_response leaves alone *)

\* C37: parse_remote_response changes no cache file when write_cache_entry
\* is false or the status is not 200; a 200 response with write_cache_entry
\* changes at most the cache file of the krate it writes, the one parsed from
\* the body, and leaves every other file as it was
C37_Frame ==
    [][last'.op = "parse_remote_response" =>
         LET krate == from_slice(last'.response.body)
         IN  /\ (~last'.write \/ last'.response.status # 200) => cache' = cache
             /\ \A p \in Paths :
                   cache'[p] # cache[p] =>
                       /\ krate.ok
                       /\ p = relative_path(krate_name(krate.val), SEP)]_vars

\* a 200 response was written while the other crate had a cache file
C37_Witness ==
    /\ last.op = "parse_remote_response"
    /\ last.write /\ last.response.status = 200 /\ last.io = "ok"
    /\ last.res.ok
    /\ \E p \in Paths :
          /\ p # relative_path(krate_name(last.res.val.val), SEP)
          /\ cache[p].exists
          /\ writtenBy[p] = "other"

----------------------------------------------------------------------------
(* A write of the cache that fails *)

\* C38 as stated: a write_to_cache that fails while it writes the entry
\* returns an error, and afterwards cached_krate reads no entry at the
\* krate's cache path
C38_NoPartialFile ==
    (last.op = "write_to_cache" /\ last.io \in {"write_fails", "remove_fails"}) =>
        /\ ~last.res.ok
        /\ LET read == IndexCache_cached_krate(cache, last.name, Some(last.revision))
           IN  ~(read.ok /\ read.val.some)

\* C38 amended: it returns an error, and when the removal of the file that
\* it attempts succeeds the krate's cache path holds no file
C38_RemovedWhenPossible ==
    /\ (last.op = "write_to_cache" /\ last.io \in {"write_fails", "remove_fails"}) =>
           ~last.res.ok
    /\ (last.op = "write_to_cache" /\ last.io = "write_fails") =>
           ~cache[relative_path(last.name, SEP)].exists

\* a write failed and removed the entry that an earlier write had left
C38_Witness ==
    /\ last.op = "write_to_cache" /\ last.io = "write_fails"
    /\ ~last.res.ok
    /\ cache[relative_path(last.name, SEP)] = NoFile
    /\ \E p \in Paths : cache[p].exists

----------------------------------------------------------------------------
(* A GitIndex on which no head commit is set *)

\* C39: while no head commit is set, GitIndex::cached_krate returns the
\* krate of a whole entry whatever revision it was written under, and
\* GitIndex::write_to_cache returns Ok(None) and leaves every cache file as
\* it was
C39_NoHeadCommit ==
    /\ [](last.op = "local_cached_krate" /\ ~head_commit.some =>
             \A n \in 1..2 : \A revision \in {encode_hex(CommitOid(1)), <<120>>} :
                cache[relative_path(last.name, SEP)]
                      = File(write_cache_entry(Krate(last.name, n), revision))
                   => last.res = Ok(Some(Krate(last.name, n))))
    /\ [][(last'.op = "git_write_to_cache" /\ ~head_commit.some) =>
             last'.res = Ok(None) /\ cache' = cache]_vars

\* with no head commit set, an entry written under a commit id was read, and
\* the other crate has an entry of revision "x"
C39_Witness ==
    /\ last.op = "local_cached_krate" /\ ~head_commit.some
    /\ cache[relative_path(last.name, SEP)]
          = File(write_cache_entry(Krate(last.name, 2), encode_hex(CommitOid(1))))
    /\ last.res = Ok(Some(Krate(last.name, 2)))
    /\ \E p \in Paths : \E n \in CrateNames :
          cache[p] = File(write_cache_entry(Krate(n, 1), <<120>>))

=============================================================================
